---- MODULE Spec2Model ----
(***************************************************************************)
(* Model of the OpenWebUI model-export converter: the export pipeline of   *)
(* gui/program.py (ExportApp.start_export, perform_export and the format   *)
(* renderers) and the personal-information filter shared with              *)
(* scripts/simplify_json.py.                                               *)
(*                                                                         *)
(* Python values are modelled as tagged records (one field name per type,  *)
(* so that values of different types compare unequal), Python strings as   *)
(* TLA+ strings, Python dicts built by the program as sequences of         *)
(* key/value pairs (insertion order), decoded JSON objects as functions.   *)
(***************************************************************************)
EXTENDS Integers, Sequences, FiniteSets, TLC

VARIABLES
    input_file_var,       \* tk.StringVar: path of the input JSON file
    output_dir_var,       \* tk.StringVar: output directory
    export_format_var,    \* tk.StringVar: chosen format
    filter_personal_var,  \* tk.BooleanVar: filter personal information
    field_vars,           \* field path -> BooleanVar value
    progress_var,         \* progress bar value (last value posted)
    status_var,           \* status line (last value posted)
    fs_input,             \* what is stored at the input path
    dirs,                 \* directories that exist
    files,                \* files written: path -> content
    clock,                \* datetime.now().strftime("%y%m%d_%H%M%S")
    threads,              \* the export threads started, when several are followed
    dialogs,              \* message boxes shown, in order
    pc,                   \* position of the export run
    selected_fields,      \* perform_export local
    timestamp,            \* perform_export local
    data,                 \* perform_export local
    extracted_data,       \* perform_export local
    idx,                  \* perform_export loop index (records, formats)
    export_format,        \* perform_export local
    individual_configs_dir, \* perform_export local
    updates,              \* update_status calls of the run, in order
    steps,                \* pipeline steps executed by the run, in order
    call,                 \* a direct call of a helper: function and arguments
    ret                   \* what that call returned

vars == <<input_file_var, output_dir_var, export_format_var, filter_personal_var,
          field_vars, progress_var, status_var, fs_input, dirs, files, clock, threads,
          dialogs, pc, selected_fields, timestamp, data, extracted_data, idx,
          export_format, individual_configs_dir, updates, steps, call, ret>>

gui_vars == <<input_file_var, output_dir_var, export_format_var,
              filter_personal_var, field_vars>>

run_vars == <<progress_var, status_var, dirs, files, dialogs, pc, selected_fields,
              timestamp, data, extracted_data, idx, export_format,
              individual_configs_dir, updates, steps>>

-----------------------------------------------------------------------------
(* Bounds *)

MaxRecords == 2     \* longest input array
MaxListLen == 1     \* longest JSON array inside a sample value

-----------------------------------------------------------------------------
(* Python values *)

Null == [t |-> "null"]
Str(s) == [t |-> "str", s |-> s]
Num(n) == [t |-> "num", n |-> n]
Bool(b) == [t |-> "bool", b |-> b]
Dict(d) == [t |-> "dict", d |-> d]
List(l) == [t |-> "list", l |-> l]

EmptyDict == Dict(<<>>)

\* the outcome of evaluating an expression: a value or a raised exception
Returned(v) == [exc |-> "none", val |-> v]
Raised(e) == [exc |-> e, val |-> Null]

-----------------------------------------------------------------------------
(* Python string operations *)

\* characters in ascending code point order (ord() is the position)
CodePoints == "\n !'-./0123456789ABCDEFGHIJKLMNOPQRSTUVWXYZ\\_abcdefghijklmnopqrstuvwxyz|"

CharAt(s, i) == SubSeq(s, i, i)

\* ord(c), up to an order-preserving renumbering
Ord == [c \in {CharAt(CodePoints, i) : i \in 1..Len(CodePoints)} |->
          CHOOSE i \in 1..Len(CodePoints) : CharAt(CodePoints, i) = c]

\* a[i:] < b[i:] when a[:i] = b[:i]
RECURSIVE StrLessFrom(_, _, _)
StrLessFrom(a, b, i) ==
    IF i > Len(b) THEN FALSE
    ELSE IF i > Len(a) THEN TRUE
    ELSE IF CharAt(a, i) = CharAt(b, i) THEN StrLessFrom(a, b, i + 1)
    ELSE Ord[CharAt(a, i)] < Ord[CharAt(b, i)]

\* a < b for str: lexicographic by code point
StrLess(a, b) == StrLessFrom(a, b, 1)

\* term in value
StrContains(term, value) ==
    \E i \in 0..(Len(value) - Len(term)) : SubSeq(value, i + 1, i + Len(term)) = term

\* s.split(sep) for a one-character separator
RECURSIVE SplitFrom(_, _, _, _)
SplitFrom(s, sep, i, cur) ==
    IF i > Len(s) THEN <<cur>>
    ELSE IF CharAt(s, i) = sep THEN <<cur>> \o SplitFrom(s, sep, i + 1, "")
    ELSE SplitFrom(s, sep, i + 1, cur \o CharAt(s, i))

Split(s, sep) == SplitFrom(s, sep, 1, "")

\* sorted(keys) for a set of str
RECURSIVE Sorted(_)
Sorted(S) ==
    IF S = {} THEN <<>>
    ELSE LET m == CHOOSE x \in S : \A y \in S \ {x} : StrLess(x, y)
         IN <<m>> \o Sorted(S \ {m})

Range(seq) == {seq[i] : i \in DOMAIN seq}

-----------------------------------------------------------------------------
(* ExportApp.__init__: the catalog of fields *)

field_structure ==
    << [category |-> "Primary Fields", fields |-> <<
          [name |-> "name", display |-> "Name", default |-> TRUE],
          [name |-> "info.meta.description", display |-> "Description", default |-> TRUE],
          [name |-> "info.params.system", display |-> "System Prompt", default |-> TRUE] >>],
       [category |-> "Basic", fields |-> <<
          [name |-> "id", display |-> "Model ID", default |-> FALSE],
          [name |-> "object", display |-> "Object Type", default |-> FALSE],
          [name |-> "created", display |-> "Creation Timestamp", default |-> FALSE],
          [name |-> "owned_by", display |-> "Owner", default |-> FALSE] >>],
       [category |-> "Info", fields |-> <<
          [name |-> "info.id", display |-> "Info ID", default |-> FALSE],
          [name |-> "info.base_model_id", display |-> "Base Model", default |-> TRUE],
          [name |-> "info.name", display |-> "Info Name", default |-> FALSE],
          [name |-> "info.is_active", display |-> "Is Active", default |-> FALSE],
          [name |-> "info.created_at", display |-> "Info Created At", default |-> FALSE],
          [name |-> "info.updated_at", display |-> "Info Updated At", default |-> FALSE] >>],
       [category |-> "Meta", fields |-> <<
          [name |-> "info.meta.profile_image_url", display |-> "Profile Image URL", default |-> FALSE],
          [name |-> "info.meta.capabilities.usage", display |-> "Usage Capability", default |-> FALSE],
          [name |-> "info.meta.capabilities.vision", display |-> "Vision Capability", default |-> FALSE],
          [name |-> "info.meta.capabilities.citations", display |-> "Citations Capability", default |-> FALSE],
          [name |-> "info.meta.tags", display |-> "Tags", default |-> FALSE] >>],
       [category |-> "Other", fields |-> <<
          [name |-> "preset", display |-> "Is Preset", default |-> FALSE],
          [name |-> "actions", display |-> "Actions", default |-> FALSE] >>] >>

\* the catalog flattened in declaration order: the order of field_vars.items()
RECURSIVE FlattenFrom(_)
FlattenFrom(i) ==
    IF i > Len(field_structure) THEN <<>>
    ELSE field_structure[i].fields \o FlattenFrom(i + 1)

CatalogFields == FlattenFrom(1)

FieldOrder == [i \in DOMAIN CatalogFields |-> CatalogFields[i].name]

FieldNames == Range(FieldOrder)

FieldDefault(f) ==
    LET i == CHOOSE j \in DOMAIN CatalogFields : CatalogFields[j].name = f
    IN CatalogFields[i].default

DefaultFieldVars == [f \in FieldNames |-> FieldDefault(f)]

-----------------------------------------------------------------------------
(* perform_export: resolving a dotted field path against a record *)

\* value.get(part, default): only a dict has the method
DictGet(value, part, default) ==
    IF value.t = "dict"
    THEN Returned(IF part \in DOMAIN value.d THEN value.d[part] ELSE default)
    ELSE Raised("AttributeError")

\* for part in field_parts: value = value.get(part, "")
RECURSIVE WalkParts(_, _)
WalkParts(value, field_parts) ==
    IF field_parts = <<>> THEN Returned(value)
    ELSE LET r == DictGet(value, Head(field_parts), Str(""))
         IN IF r.exc # "none" THEN r
            ELSE WalkParts(r.val, Tail(field_parts))

\* the mutant: the handler catches TypeError only
ResolveCatchTypeErrorOnly(item, field) ==
    LET r == WalkParts(item, Split(field, "."))
    IN IF r.exc \in {"TypeError"} THEN Returned(Str("")) ELSE r

\* the try/except around the walk: the value stored under extracted_item[field]
Resolve(item, field) ==
    LET r == WalkParts(item, Split(field, "."))
    IN IF r.exc \in {"AttributeError", "TypeError"} THEN Returned(Str("")) ELSE r

-----------------------------------------------------------------------------
(* contains_personal_info *)

personal_terms == <<"Daniel", "Rosehill", "daniel", "rosehill">>

AnyTermIn(terms, s) == \E ti \in DOMAIN terms : StrContains(terms[ti], s)

\* the mutant: a list is not searched
RECURSIVE ContainsSkippingLists(_, _)
ContainsSkippingLists(obj, terms) ==
    IF obj.t = "dict"
    THEN \E key \in DOMAIN obj.d :
            LET value == obj.d[key]
            IN IF value.t = "dict" THEN ContainsSkippingLists(value, terms)
               ELSE IF value.t = "str" THEN AnyTermIn(terms, value.s)
               ELSE FALSE
    ELSE IF obj.t = "str" THEN AnyTermIn(terms, obj.s)
    ELSE FALSE

\* ExportApp.contains_personal_info
RECURSIVE contains_personal_info(_, _)
contains_personal_info(obj, terms) ==
    IF obj.t = "dict"
    THEN \E key \in DOMAIN obj.d :
            LET value == obj.d[key]
            IN IF value.t \in {"dict", "list"} THEN contains_personal_info(value, terms)
               ELSE IF value.t = "str" THEN AnyTermIn(terms, value.s)
               ELSE FALSE
    ELSE IF obj.t = "list"
    THEN \E i \in DOMAIN obj.l : contains_personal_info(obj.l[i], terms)
    ELSE IF obj.t = "str" THEN AnyTermIn(terms, obj.s)
    ELSE FALSE

\* scripts/simplify_json.py: contains_personal_info
RECURSIVE script_contains_personal_info(_, _)
script_contains_personal_info(obj, terms) ==
    IF obj.t = "dict"
    THEN \E key \in DOMAIN obj.d :
            LET value == obj.d[key]
            IN IF value.t \in {"dict", "list"} THEN script_contains_personal_info(value, terms)
               ELSE IF value.t = "str" THEN AnyTermIn(terms, value.s)
               ELSE FALSE
    ELSE IF obj.t = "list"
    THEN \E i \in DOMAIN obj.l : script_contains_personal_info(obj.l[i], terms)
    ELSE IF obj.t = "str" THEN AnyTermIn(terms, obj.s)
    ELSE FALSE

-----------------------------------------------------------------------------
(* perform_export: projection of the selected fields *)

\* the keys of a dict built by the program, in insertion order
ItemKeys(item) == [i \in DOMAIN item |-> item[i].key]

ItemHas(item, k) == \E i \in DOMAIN item : item[i].key = k

\* item.get(k, default)
ItemGet(item, k, default) ==
    IF ItemHas(item, k)
    THEN item[CHOOSE i \in DOMAIN item : item[i].key = k].value
    ELSE default

\* the mutant: a field that resolves to nothing is left out
ExtractItemOmitting(item, fields) ==
    SelectSeq([i \in DOMAIN fields |-> [key |-> fields[i], value |-> Resolve(item, fields[i]).val]],
              LAMBDA entry : entry.value # Str(""))

\* extracted_item: one entry per selected field, in the order of the selection
ExtractItem(item, fields) ==
    [i \in DOMAIN fields |-> [key |-> fields[i], value |-> Resolve(item, fields[i]).val]]

\* the exception that escapes the extraction loop, if any
ExtractRaises(items, fields) ==
    {Resolve(items[i], fields[j]).exc : i \in DOMAIN items, j \in DOMAIN fields} \ {"none"}

ExtractAll(items, fields) == [i \in DOMAIN items |-> ExtractItem(items[i], fields)]

\* the mutant: the personal-information test is applied to the name only
KeepCleanNamesOnly(items, terms) ==
    SelectSeq(items, LAMBDA item :
        ~ contains_personal_info(Resolve(item, "name").val, terms))

\* filtered_data: the records without personal information, in input order
FilterPersonal(items, terms) ==
    SelectSeq(items, LAMBDA item : ~ contains_personal_info(item, terms))

-----------------------------------------------------------------------------
(* The individual markdown files *)

LowerCase == "abcdefghijklmnopqrstuvwxyz"
UpperCase == "ABCDEFGHIJKLMNOPQRSTUVWXYZ"
Digits == "0123456789"

\* str methods follow Unicode: letters and digits outside ASCII, as samples
UnicodeLower == "é"
UnicodeUpper == "É"
UnicodeDigits == "²"

InString(c, s) == \E i \in 1..Len(s) : CharAt(s, i) = c

\* c.lower()
LowerChar(c) ==
    LET upper == UpperCase \o UnicodeUpper
        lower == LowerCase \o UnicodeLower
    IN IF InString(c, upper)
       THEN CharAt(lower, CHOOSE i \in 1..Len(upper) : CharAt(upper, i) = c)
       ELSE c

\* c.isalnum()
IsAlnum(c) ==
    InString(c, LowerCase \o UpperCase \o Digits \o UnicodeLower \o UnicodeUpper \o UnicodeDigits)

\* s.lower()
RECURSIVE Lower(_)
Lower(s) ==
    IF Len(s) = 0 THEN "" ELSE LowerChar(CharAt(s, 1)) \o Lower(SubSeq(s, 2, Len(s)))

\* s.replace(old, new) for a one-character old
RECURSIVE Replace(_, _, _)
Replace(s, old, new) ==
    IF Len(s) = 0 THEN ""
    ELSE (IF CharAt(s, 1) = old THEN new ELSE CharAt(s, 1))
         \o Replace(SubSeq(s, 2, Len(s)), old, new)

\* ''.join(c for c in filename if c.isalnum() or c in ['-', '_'])
RECURSIVE KeepFilenameChars(_)
KeepFilenameChars(s) ==
    IF Len(s) = 0 THEN ""
    ELSE (IF IsAlnum(CharAt(s, 1)) \/ CharAt(s, 1) \in {"-", "_"} THEN CharAt(s, 1) ELSE "")
         \o KeepFilenameChars(SubSeq(s, 2, Len(s)))

\* the computer-friendly filename of a model name
Filename(model_name) ==
    LET lowered == Lower(model_name)
        dashed == Replace(Replace(Replace(lowered, " ", "-"), "/", "-"), "\\", "-")
    IN KeepFilenameChars(dashed) \o ".md"

\* os.path.join
PathJoin(a, b) == a \o "/" \o b

\* the file written for one extracted item, or the exception of model_name.lower()
IndividualDoc(item) ==
    LET model_name == ItemGet(item, "name", Str("Unknown Model"))
        description == ItemGet(item, "info.meta.description", Str(""))
        system_prompt == ItemGet(item, "info.params.system", Str(""))
    IN IF model_name.t # "str"
       THEN [exc |-> "AttributeError", name |-> "", content |-> Null]
       ELSE [exc |-> "none",
             name |-> Filename(model_name.s),
             content |-> [kind |-> "doc", model_name |-> model_name,
                          description |-> description, system_prompt |-> system_prompt]]

-----------------------------------------------------------------------------
(* The renderers *)

\* all_keys: the union of the keys of all items
AllKeys(d) == UNION {Range(ItemKeys(d[i])) : i \in DOMAIN d}

\* the primary fields present, in their fixed order, then the rest sorted
OrderKeys(primary, all_keys) ==
    LET first == SelectSeq(primary, LAMBDA f : f \in all_keys)
    IN first \o Sorted(all_keys \ Range(first))

\* header_mapping.get(field, field)
HeaderName(mapping, field) == IF field \in DOMAIN mapping THEN mapping[field] ELSE field

\* header_row: the friendly name of every column
HeaderRow(mapping, columns) == [i \in DOMAIN columns |-> HeaderName(mapping, columns[i])]

\* one row per item with item.get(column, default) for every column
Rows(d, columns, default) ==
    [i \in DOMAIN d |-> [j \in DOMAIN columns |-> ItemGet(d[i], columns[j], default)]]

\* repr of a list or a dict; kept symbolic
StrOf(v) == [t |-> "strof", of |-> v]

\* str(value)
Text(v) ==
    CASE v.t = "str" -> v
      [] v.t = "num" -> Str(ToString(v.n))
      [] v.t = "bool" -> Str(IF v.b THEN "True" ELSE "False")
      [] v.t = "null" -> Str("None")
      [] OTHER -> StrOf(v)

\* what csv.writer writes for a value: None as the empty field, str(value) otherwise
CsvCell(v) == IF v.t = "null" THEN Str("") ELSE Text(v)

csv_primary_fields == <<"name", "info.meta.description", "info.params.system">>

csv_header_mapping ==
    ("name" :> "name") @@ ("info.meta.description" :> "description")
        @@ ("info.params.system" :> "system_prompt")

\* the mutant: the remaining keys keep the order of the selection
CsvFieldnamesUnsorted(d) ==
    LET first == SelectSeq(csv_primary_fields, LAMBDA f : f \in AllKeys(d))
    IN first \o SelectSeq(FieldOrder, LAMBDA f : f \in AllKeys(d) \ Range(first))

\* the mutant: every primary field is a column, present or not
CsvFieldnamesAllPrimary(d) ==
    csv_primary_fields \o Sorted(AllKeys(d) \ Range(csv_primary_fields))

\* export_to_csv: fieldnames
csv_fieldnames(d) == OrderKeys(csv_primary_fields, AllKeys(d))

export_to_csv(d) ==
    IF Len(d) = 0 THEN [exc |-> "ValueError", msg |-> "No data to export", content |-> Null]
    ELSE LET fieldnames == csv_fieldnames(d)
         IN [exc |-> "none", msg |-> "",
             content |-> [kind |-> "csv",
                          columns |-> fieldnames,
                          header |-> HeaderRow(csv_header_mapping, fieldnames),
                          rows |-> [i \in DOMAIN d |-> [j \in DOMAIN fieldnames |->
                                     CsvCell(ItemGet(d[i], fieldnames[j], Str("")))]]]]

excel_primary_fields == <<"name", "info.meta.description", "info.params.system">>

excel_header_mapping ==
    ("name" :> "name") @@ ("info.meta.description" :> "description")
        @@ ("info.params.system" :> "system_prompt")

\* pd.DataFrame(data).columns: the keys in order of first appearance
RECURSIVE DfColumnsFrom(_, _, _)
DfColumnsFrom(d, i, seen) ==
    IF i > Len(d) THEN seen
    ELSE DfColumnsFrom(d, i + 1,
            seen \o SelectSeq(ItemKeys(d[i]), LAMBDA k : k \notin Range(seen)))

DfColumns(d) == DfColumnsFrom(d, 1, <<>>)

NaN == [t |-> "nan"]

\* a cell of the frame: None is a missing value, written as an empty cell
ExcelCell(v) == IF v.t = "null" THEN NaN ELSE v

\* the mutant: the frame keeps its own column order
ExcelColumnsOfFrame(d) == DfColumns(d)

\* export_to_excel: ordered_columns
excel_ordered_columns(d) ==
    LET fieldnames == OrderKeys(excel_primary_fields, AllKeys(d))
    IN SelectSeq(fieldnames, LAMBDA col : col \in Range(DfColumns(d)))

\* a cell that openpyxl cannot store makes df.to_excel raise
ExcelConvertible(v) == v.t \notin {"dict", "list"}

export_to_excel(d) ==
    IF Len(d) = 0 THEN [exc |-> "ValueError", msg |-> "No data to export", content |-> Null]
    ELSE LET ordered_columns == excel_ordered_columns(d)
             rows == Rows(d, ordered_columns, NaN)
         IN IF \E i \in DOMAIN rows : \E j \in DOMAIN rows[i] : ~ ExcelConvertible(rows[i][j])
            THEN [exc |-> "ValueError", msg |-> "Cannot convert to Excel", content |-> Null]
            ELSE [exc |-> "none", msg |-> "",
                  content |-> [kind |-> "xlsx",
                               columns |-> ordered_columns,
                               header |-> HeaderRow(excel_header_mapping, ordered_columns),
                               rows |-> [i \in DOMAIN rows |-> [j \in DOMAIN rows[i] |->
                                          ExcelCell(rows[i][j])]]]]

\* s.join(parts)
RECURSIVE Join(_, _)
Join(parts, sep) ==
    IF parts = <<>> THEN ""
    ELSE IF Len(parts) = 1 THEN parts[1]
    ELSE parts[1] \o sep \o Join(Tail(parts), sep)

\* the mutant: the characters of a string are written as they are
JsonCharsRaw(s) == s

\* the characters of a str between the quotes of a JSON string
RECURSIVE JsonChars(_)
JsonChars(s) ==
    IF Len(s) = 0 THEN ""
    ELSE (CASE CharAt(s, 1) = "\"" -> "\\\""
            [] CharAt(s, 1) = "\\" -> "\\\\"
            [] CharAt(s, 1) = "\n" -> "\\n"
            [] OTHER -> CharAt(s, 1))
         \o JsonChars(SubSeq(s, 2, Len(s)))

JsonString(s) == "\"" \o JsonChars(s) \o "\""

\* the indentation of a nesting level under indent=2
Indent(level) == SubSeq("                    ", 1, 2 * level)

\* "[" or "{", the parts one per line, "]" or "}"
JsonBlock(open, parts, close, level) ==
    IF parts = <<>> THEN open \o close
    ELSE open \o "\n"
         \o Join([i \in DOMAIN parts |-> Indent(level + 1) \o parts[i]], ",\n")
         \o "\n" \o Indent(level) \o close

\* json.dumps(v, indent=2) at a nesting level; the keys of a decoded object
\* are listed in ascending order
RECURSIVE JsonValue(_, _)
JsonValue(v, level) ==
    CASE v.t = "str" -> JsonString(v.s)
      [] v.t = "num" -> ToString(v.n)
      [] v.t = "bool" -> (IF v.b THEN "true" ELSE "false")
      [] v.t = "null" -> "null"
      [] v.t = "list" ->
            JsonBlock("[", [i \in DOMAIN v.l |-> JsonValue(v.l[i], level + 1)], "]", level)
      [] v.t = "dict" ->
            LET keys == Sorted(DOMAIN v.d)
            IN JsonBlock("{", [i \in DOMAIN keys |->
                                 JsonString(keys[i]) \o ": "
                                     \o JsonValue(v.d[keys[i]], level + 1)], "}", level)

\* an extracted item: its keys in insertion order
JsonItem(item, level) ==
    JsonBlock("{", [j \in DOMAIN item |->
                      JsonString(item[j].key) \o ": "
                          \o JsonValue(item[j].value, level + 1)], "}", level)

\* json.dump(data, f, indent=2)
JsonText(d) == JsonBlock("[", [i \in DOMAIN d |-> JsonItem(d[i], 1)], "]", 0)

export_to_json(d) ==
    [exc |-> "none", msg |-> "",
     content |-> [kind |-> "json", items |-> d, text |-> JsonText(d)]]

export_to_yaml(d) ==
    [exc |-> "none", msg |-> "", content |-> [kind |-> "yaml", items |-> d]]

\* an element without a text node
NoText == [t |-> "notext"]

\* doc.createElement(tag), with the text node of a field element
Element(tag, text) == [tag |-> tag, text |-> text, children |-> <<>>]

\* the mutant: None is written as str(None)
XmlTextOfNone(v) == Text(v)

\* the text of a field element: str(value) if value is not None else ""
XmlText(v) == IF v.t = "null" THEN Str("") ELSE Text(v)

\* the first child of elem with the given nodeName, 0 if there is none
FirstChild(elem, tag) ==
    LET found == {i \in DOMAIN elem.children : elem.children[i].tag = tag}
    IN IF found = {} THEN 0 ELSE CHOOSE i \in found : \A j \in found : i <= j

\* the mutant: every key creates its own intermediate elements
RECURSIVE AddFieldNoReuse(_, _, _)
AddFieldNoReuse(elem, parts, text) ==
    IF Len(parts) = 1
    THEN [elem EXCEPT !.children = Append(@, Element(parts[1], text))]
    ELSE [elem EXCEPT !.children =
            Append(@, AddFieldNoReuse(Element(Head(parts), NoText), Tail(parts), text))]

\* elem after the field element of a key has been added below it: the parts
\* but the last reuse or create intermediate elements, the last part is
\* always appended as a new element
RECURSIVE AddField(_, _, _)
AddField(elem, parts, text) ==
    IF Len(parts) = 1
    THEN [elem EXCEPT !.children = Append(@, Element(parts[1], text))]
    ELSE LET existing == FirstChild(elem, Head(parts))
         IN IF existing = 0
            THEN [elem EXCEPT !.children =
                    Append(@, AddField(Element(Head(parts), NoText), Tail(parts), text))]
            ELSE [elem EXCEPT !.children[existing] = AddField(@, Tail(parts), text)]

\* the model element of one item: its fields added in the order of item.items()
RECURSIVE ModelElement(_, _)
ModelElement(item, n) ==
    IF n = 0 THEN Element("model", NoText)
    ELSE AddField(ModelElement(item, n - 1), Split(item[n].key, "."), XmlText(item[n].value))

export_to_xml(d) ==
    [exc |-> "none", msg |-> "",
     content |-> [kind |-> "xml",
                  root |-> [tag |-> "models", text |-> NoText,
                            children |-> [i \in DOMAIN d |-> ModelElement(d[i], Len(d[i]))]]]]

markdown_primary_fields == <<"name", "info.meta.description", "info.params.system">>

markdown_header_mapping ==
    ("name" :> "name") @@ ("info.meta.description" :> "description")
        @@ ("info.params.system" :> "system_prompt")

\* the mutant: only the primary fields become columns
MarkdownHeadersPrimaryOnly(d) ==
    SelectSeq(markdown_primary_fields, LAMBDA f : f \in AllKeys(d))

\* export_to_markdown: headers
markdown_headers(d) == OrderKeys(markdown_primary_fields, AllKeys(d))

\* export_to_markdown: header_row
markdown_header_row(d) == HeaderRow(markdown_header_mapping, markdown_headers(d))

\* repr of the characters of a str: the backslash and the newline are escaped
RECURSIVE ReprChars(_)
ReprChars(s) ==
    IF Len(s) = 0 THEN ""
    ELSE (CASE CharAt(s, 1) = "\\" -> "\\\\"
            [] CharAt(s, 1) = "\n" -> "\\n"
            [] OTHER -> CharAt(s, 1))
         \o ReprChars(SubSeq(s, 2, Len(s)))

\* repr(s) for a str without double quotes: single quotes, double quotes
\* when s has a single quote
ReprStr(s) ==
    LET quote == IF InString("'", s) THEN "\"" ELSE "'"
    IN quote \o ReprChars(s) \o quote

\* repr(value); the keys of a decoded object are listed in ascending order
RECURSIVE Repr(_)
Repr(v) ==
    CASE v.t = "str" -> ReprStr(v.s)
      [] v.t = "num" -> ToString(v.n)
      [] v.t = "bool" -> (IF v.b THEN "True" ELSE "False")
      [] v.t = "null" -> "None"
      [] v.t = "list" -> "[" \o Join([i \in DOMAIN v.l |-> Repr(v.l[i])], ", ") \o "]"
      [] v.t = "dict" ->
            LET keys == Sorted(DOMAIN v.d)
            IN "{" \o Join([i \in DOMAIN keys |->
                              ReprStr(keys[i]) \o ": " \o Repr(v.d[keys[i]])], ", ") \o "}"

\* str(value), character by character
StrChars(v) == IF v.t = "str" THEN v.s ELSE Repr(v)

\* the mutant: a string is written as it is
MarkdownCellUnescaped(value) ==
    IF value.t = "null" THEN Str("") ELSE Text(value)

\* one table cell: pipes and newlines of a string escaped, None as the empty string
MarkdownCell(value) ==
    IF value.t = "str" THEN Str(Replace(Replace(value.s, "|", "\\|"), "\n", "<br>"))
    ELSE IF value.t = "null" THEN Str("")
    ELSE Text(value)

\* "| " + " | ".join(row) + " |\n"
MarkdownLine(row) == "| " \o Join(row, " | ") \o " |\n"

\* the characters of a table cell
MarkdownCellChars(value) ==
    LET cell == MarkdownCell(value)
    IN IF cell.t = "str" THEN cell.s ELSE StrChars(value)

\* the text written from the header row on
markdown_table(d) ==
    LET headers == markdown_headers(d)
    IN MarkdownLine(markdown_header_row(d))
       \o MarkdownLine([j \in DOMAIN headers |-> "---"])
       \o Join([i \in DOMAIN d |->
                  MarkdownLine([j \in DOMAIN headers |->
                      MarkdownCellChars(ItemGet(d[i], headers[j], Str("")))])], "")

export_to_markdown(d) ==
    IF Len(d) = 0 THEN [exc |-> "ValueError", msg |-> "No data to export", content |-> Null]
    ELSE LET headers == markdown_headers(d)
         IN [exc |-> "none", msg |-> "",
             content |-> [kind |-> "md",
                          columns |-> headers,
                          header |-> markdown_header_row(d),
                          rows |-> [i \in DOMAIN d |-> [j \in DOMAIN headers |->
                                     MarkdownCell(ItemGet(d[i], headers[j], Str("")))]],
                          table |-> markdown_table(d)]]

\* the formats whose renderer derives a column order
TabularFormats == {"csv", "excel", "markdown"}

format_ext ==
    ("csv" :> ".csv") @@ ("json" :> ".json") @@ ("excel" :> ".xlsx")
        @@ ("yaml" :> ".yaml") @@ ("xml" :> ".xml") @@ ("markdown" :> ".md")

\* the formats of an all-formats export, in order
formats == <<"csv", "json", "excel", "yaml", "xml", "markdown">>

\* the dispatch on the format
Export(fmt, d) ==
    CASE fmt = "csv" -> export_to_csv(d)
      [] fmt = "json" -> export_to_json(d)
      [] fmt = "excel" -> export_to_excel(d)
      [] fmt = "yaml" -> export_to_yaml(d)
      [] fmt = "xml" -> export_to_xml(d)
      [] fmt = "markdown" -> export_to_markdown(d)

-----------------------------------------------------------------------------
(* Sample values *)

\* lists of at most len elements of V
ListsOf(V, len) == {List(l) : l \in UNION {[1..n -> V] : n \in 0..len}}

\* dicts whose keys are some of K, with values in V
DictsOf(K, V) == {Dict(f) : f \in UNION {[ks -> V] : ks \in SUBSET K}}

\* the key absent, or present with a value of V
Opt(key, V) == {<<>>} \cup {(key :> v) : v \in V}

MatchLeaves == {Str("ok"), Str("Daniel"), Str("x daniel"), Num(1), Null}

\* a key that contains a term is not a match
MatchKeys == {"name", "Daniel"}

MatchLevel1(len) ==
    MatchLeaves \cup ListsOf(MatchLeaves, len) \cup DictsOf(MatchKeys, MatchLeaves)

\* trees of two levels of containers
MatchObjects(len) ==
    MatchLevel1(len) \cup ListsOf(MatchLevel1(len), len) \cup DictsOf(MatchKeys, MatchLevel1(len))

TermLists == {<<>>, personal_terms, <<"Daniel">>, <<"daniel", "k">>}

ResolveLeaves == {Str(""), Str("d1"), Num(1), Null, List(<<Str("t")>>)}

MetaDicts == DictsOf({"description", "tags"}, ResolveLeaves)

ParamsValues == {Str("p"), EmptyDict, Dict([system |-> Str("s1")]), Dict([system |-> Null])}

InfoDicts ==
    {Dict(m @@ p) : m \in Opt("meta", MetaDicts \cup ResolveLeaves),
                    p \in Opt("params", ParamsValues)}

ResolveItems ==
    ResolveLeaves \cup
    {Dict(n @@ i) : n \in Opt("name", ResolveLeaves),
                    i \in Opt("info", InfoDicts \cup ResolveLeaves)}

\* a complete record without personal information
RecFull ==
    Dict([name |-> Str("GPT 4 / Test"), id |-> Str("m1"), created |-> Num(1),
          info |-> Dict([base_model_id |-> Str("b1"), is_active |-> Bool(TRUE),
                         meta |-> Dict([description |-> Str("a|b\nc")]),
                         params |-> Dict([system |-> Str("s1")])])])

\* no description; personal information only in a field that is not listed
RecTagged ==
    Dict([name |-> Str("Helper"),
          info |-> Dict([meta |-> Dict([tags |-> List(<<Dict([name |-> Str("daniel|\n\\\"")])>>)]),
                         params |-> Dict([system |-> Str("s2")])])])

\* a name that is not a string, an info that is not a mapping
RecOdd == Dict([name |-> Null, id |-> Null, info |-> Str("n/a"), created |-> Num(2)])

SampleRecords == {RecFull, RecTagged, RecOdd}

\* the fields whose checkbox the sample settings vary
ModelFields == {"name", "info.meta.description", "id", "created"}

FieldSettings ==
    {[f \in FieldNames |-> IF f \in ModelFields THEN f \in S ELSE FieldDefault(f)] :
        S \in SUBSET ModelFields}

FormatChoices == {"csv", "json", "excel", "yaml", "xml", "markdown", "all"}

\* the output directory set by create_ui
DefaultOutputDir == "workspace/output"

InputPath == "workspace/input/input.json"

Now == "261104_060500"

RecordLists == UNION {[1..n -> SampleRecords] : n \in 0..MaxRecords}

\* what the input file may hold: broken JSON, an object, an array of records
InputDocuments ==
    {[kind |-> "invalid", value |-> Null], [kind |-> "json", value |-> RecFull]}
    \cup {[kind |-> "json", value |-> List(l)] : l \in RecordLists}

Missing == [kind |-> "missing", value |-> Null]

Environments ==
    {[input |-> InputPath, output |-> DefaultOutputDir, dirs |-> {DefaultOutputDir}, doc |-> d] :
        d \in InputDocuments}
    \cup {[input |-> "", output |-> DefaultOutputDir, dirs |-> {DefaultOutputDir}, doc |-> Missing],
          [input |-> InputPath, output |-> "", dirs |-> {}, doc |-> Missing],
          [input |-> InputPath, output |-> DefaultOutputDir, dirs |-> {DefaultOutputDir}, doc |-> Missing],
          [input |-> InputPath, output |-> DefaultOutputDir, dirs |-> {},
           doc |-> [kind |-> "json", value |-> List(<<RecFull>>)]],
          [input |-> InputPath, output |-> DefaultOutputDir, dirs |-> {},
           doc |-> [kind |-> "invalid", value |-> Null]]}

-----------------------------------------------------------------------------
(* ExportApp.__init__: the state after construction *)

NoCall == [fn |-> "none"]
NoReturn == [exc |-> "pending", val |-> Null]

Percent(n, d) == [num |-> n, den |-> d]

\* no export has run
NothingRun ==
    /\ progress_var = Percent(0, 1)
    /\ status_var = "Ready"
    /\ dialogs = <<>>
    /\ pc = "Idle"
    /\ selected_fields = <<>>
    /\ timestamp = ""
    /\ data = <<>>
    /\ extracted_data = <<>>
    /\ idx = 0
    /\ export_format = ""
    /\ individual_configs_dir = ""
    /\ updates = <<>>
    /\ steps = <<>>
    /\ files = <<>>

Constructed ==
    /\ input_file_var = ""
    /\ output_dir_var = DefaultOutputDir
    /\ export_format_var = "csv"
    /\ filter_personal_var = TRUE
    /\ field_vars = DefaultFieldVars
    /\ NothingRun

-----------------------------------------------------------------------------
(* The export run *)

MaxDialogs == 1     \* rejected clicks on Export that are followed

Init ==
    /\ \E env \in Environments :
          /\ input_file_var = env.input
          /\ output_dir_var = env.output
          /\ dirs = env.dirs
          /\ fs_input = env.doc
    /\ export_format_var \in FormatChoices
    /\ filter_personal_var \in BOOLEAN
    /\ field_vars \in FieldSettings
    /\ clock = Now
    /\ threads = <<>>
    /\ NothingRun
    /\ call = NoCall
    /\ ret = NoReturn

select_all_fields ==
    /\ pc = "Idle"
    /\ field_vars' = [f \in DOMAIN field_vars |-> TRUE]
    /\ UNCHANGED <<input_file_var, output_dir_var, export_format_var, filter_personal_var,
                   run_vars, fs_input, clock, threads, call, ret>>

deselect_all_fields ==
    /\ pc = "Idle"
    /\ field_vars' = [f \in DOMAIN field_vars |-> FALSE]
    /\ UNCHANGED <<input_file_var, output_dir_var, export_format_var, filter_personal_var,
                   run_vars, fs_input, clock, threads, call, ret>>

reset_to_default ==
    /\ pc = "Idle"
    /\ field_vars' = [f \in DOMAIN field_vars |-> FieldDefault(f)]
    /\ UNCHANGED <<input_file_var, output_dir_var, export_format_var, filter_personal_var,
                   run_vars, fs_input, clock, threads, call, ret>>

Upd(message, progress) == [message |-> message, progress |-> progress]

\* update_status, once for each element of us
Post(us) ==
    /\ updates' = updates \o us
    /\ status_var' = us[Len(us)].message
    /\ progress_var' = us[Len(us)].progress

\* messagebox.showerror / showinfo
ShowDialog(kind, text) == dialogs' = Append(dialogs, [kind |-> kind, text |-> text])

\* the mutant: the handler removes what the run has written
FailRollingBack(us, e, st) ==
    /\ pc' = "Failed"
    /\ Post(us \o <<Upd("Error: " \o e, Percent(0, 1))>>)
    /\ ShowDialog("error", "Error during export: " \o e)
    /\ steps' = steps \o st \o <<"Failed">>
    /\ files' = <<>>

\* the except clause of perform_export, after the updates us and the steps st
Fail(us, e, st) ==
    /\ pc' = "Failed"
    /\ Post(us \o <<Upd("Error: " \o e, Percent(0, 1))>>)
    /\ ShowDialog("error", "Error during export: " \o e)
    /\ steps' = steps \o st \o <<"Failed">>
    /\ files' = files

\* a validation of start_export fails
Reject(text) ==
    /\ ShowDialog("error", text)
    /\ UNCHANGED <<progress_var, status_var, pc>>

start_export ==
    /\ pc = "Idle"
    /\ Len(dialogs) < MaxDialogs
    /\ IF input_file_var = ""
       THEN Reject("Please select an input JSON file") /\ UNCHANGED dirs
       ELSE IF output_dir_var = ""
       THEN Reject("Please select an output directory") /\ UNCHANGED dirs
       ELSE IF fs_input.kind = "missing"
       THEN Reject("Input file does not exist") /\ UNCHANGED dirs
       ELSE \E made \in IF output_dir_var \in dirs THEN {TRUE} ELSE {TRUE, FALSE} :
               IF ~ made
               THEN Reject("Could not create output directory") /\ UNCHANGED dirs
               ELSE /\ dirs' = dirs \cup {output_dir_var}
                    /\ IF \A f \in DOMAIN field_vars : ~ field_vars[f]
                       THEN Reject("Please select at least one field to export")
                       ELSE /\ progress_var' = Percent(0, 1)
                            /\ status_var' = "Starting export..."
                            /\ pc' = "Loading"
                            /\ UNCHANGED dialogs
    /\ UNCHANGED <<gui_vars, fs_input, files, clock, threads, selected_fields, timestamp, data,
                   extracted_data, idx, export_format, individual_configs_dir,
                   updates, steps, call, ret>>

\* type(data).__name__
TypeName(v) ==
    CASE v.t = "dict" -> "dict" [] v.t = "list" -> "list" [] v.t = "str" -> "str"
      [] v.t = "num" -> "int" [] v.t = "bool" -> "bool" [] v.t = "null" -> "NoneType"

\* perform_export up to the check of the array
Load ==
    /\ pc = "Loading"
    /\ selected_fields' = SelectSeq(FieldOrder, LAMBDA f : field_vars[f])
    /\ timestamp' = clock
    /\ LET us == <<Upd("Reading input file...", Percent(5, 1))>>
       IN \E opened \in BOOLEAN :
             IF ~ opened
             THEN Fail(us, "OSError", <<"Loading">>) /\ UNCHANGED data
             ELSE IF fs_input.kind # "json"
             THEN Fail(us, "JSONDecodeError", <<"Loading">>) /\ UNCHANGED data
             ELSE IF fs_input.value.t # "list"
             THEN /\ Fail(us, "Expected a JSON array, but got " \o TypeName(fs_input.value),
                          <<"Loading">>)
                  /\ UNCHANGED data
             ELSE /\ data' = fs_input.value.l
                  /\ Post(us)
                  /\ steps' = Append(steps, "Loading")
                  /\ pc' = "Filtering"
                  /\ UNCHANGED <<dialogs, files>>
    /\ UNCHANGED <<gui_vars, fs_input, dirs, clock, threads, extracted_data, idx, export_format,
                   individual_configs_dir, call, ret>>

\* the filter loop, when the flag is set
Filter ==
    /\ pc = "Filtering"
    /\ IF filter_personal_var
       THEN LET total_items == Len(data)
                us == <<Upd("Filtering personal information...", Percent(10, 1))>>
                      \o [i \in 1..total_items |->
                            Upd("Filtering: " \o ToString(i) \o "/" \o ToString(total_items),
                                Percent(10 * total_items + i * 20, total_items))]
            IN /\ data' = FilterPersonal(data, personal_terms)
               /\ Post(us)
               /\ steps' = Append(steps, "Filtering")
       ELSE UNCHANGED <<data, updates, status_var, progress_var, steps>>
    /\ pc' = "Projecting"
    /\ UNCHANGED <<gui_vars, fs_input, dirs, files, clock, threads, dialogs, selected_fields,
                   timestamp, extracted_data, idx, export_format, individual_configs_dir,
                   call, ret>>

\* the extraction loop
Project ==
    /\ pc = "Projecting"
    /\ LET total_items == Len(data)
           first == <<Upd("Extracting selected fields...", Percent(30, 1))>>
           us == first
                 \o [i \in 1..total_items |->
                       Upd("Extracting: " \o ToString(i) \o "/" \o ToString(total_items),
                           Percent(30 * total_items + i * 40, total_items))]
           raised == ExtractRaises(data, selected_fields)
       IN IF raised # {}
          THEN /\ Fail(first, CHOOSE e \in raised : TRUE, <<"Projecting">>)
               /\ UNCHANGED extracted_data
          ELSE /\ extracted_data' = ExtractAll(data, selected_fields)
               /\ Post(us)
               /\ steps' = Append(steps, "Projecting")
               /\ pc' = "MakingDirs"
               /\ UNCHANGED <<dialogs, files>>
    /\ UNCHANGED <<gui_vars, fs_input, dirs, clock, threads, selected_fields, timestamp, data, idx,
                   export_format, individual_configs_dir, call, ret>>

\* os.makedirs of the directory of the individual files
MakeDirs ==
    /\ pc = "MakingDirs"
    /\ LET us == <<Upd("Creating individual model markdown files...", Percent(65, 1))>>
           run_dir == PathJoin(output_dir_var, "export_" \o timestamp)
           dir == PathJoin(run_dir, "individual-configs")
       IN /\ individual_configs_dir' = dir
          /\ \E made \in BOOLEAN :
                IF ~ made
                THEN /\ Fail(us, "OSError", <<"WritingIndividualDocs">>)
                     /\ UNCHANGED <<dirs, export_format>>
                ELSE /\ dirs' = dirs \cup {output_dir_var, run_dir, dir}
                     /\ Post(us)
                     /\ steps' = Append(steps, "WritingIndividualDocs")
                     /\ IF Len(extracted_data) = 0
                        THEN pc' = "Rendering" /\ export_format' = export_format_var
                        ELSE pc' = "WritingIndividualDocs" /\ UNCHANGED export_format
                     /\ UNCHANGED <<dialogs, files>>
    /\ idx' = 0
    /\ UNCHANGED <<gui_vars, fs_input, clock, threads, selected_fields, timestamp, data,
                   extracted_data, call, ret>>

\* one iteration of the loop that writes the individual files
WriteDoc ==
    /\ pc = "WritingIndividualDocs"
    /\ LET i == idx + 1
           n == Len(extracted_data)
           doc == IndividualDoc(extracted_data[i])
       IN IF doc.exc # "none"
          THEN /\ Fail(<<>>, "object has no attribute 'lower'", <<>>)
               /\ UNCHANGED <<idx, export_format>>
          ELSE \E written \in BOOLEAN :
                  IF ~ written
                  THEN Fail(<<>>, "OSError", <<>>) /\ UNCHANGED <<idx, export_format>>
                  ELSE /\ files' = (PathJoin(individual_configs_dir, doc.name) :> doc.content)
                                      @@ files
                       /\ Post(<<Upd("Creating individual files: " \o ToString(i) \o "/"
                                        \o ToString(n),
                                     Percent(65 * n + i * 5, n))>>)
                       /\ IF i = n
                          THEN pc' = "Rendering" /\ idx' = 0
                               /\ export_format' = export_format_var
                          ELSE pc' = pc /\ idx' = i /\ UNCHANGED export_format
                       /\ UNCHANGED <<dialogs, steps>>
    /\ UNCHANGED <<gui_vars, fs_input, dirs, clock, threads, selected_fields, timestamp, data,
                   extracted_data, individual_configs_dir, call, ret>>

UpperChar(c) ==
    IF InString(c, LowerCase)
    THEN CharAt(UpperCase, CHOOSE i \in 1..Len(LowerCase) : CharAt(LowerCase, i) = c)
    ELSE c

\* s.upper()
RECURSIVE Upper(_)
Upper(s) ==
    IF Len(s) = 0 THEN "" ELSE UpperChar(CharAt(s, 1)) \o Upper(SubSeq(s, 2, Len(s)))

RenderStep(fmt) == "Rendering(" \o fmt \o ")"

\* the mutant: the column order is derived for every format
StepsOfRenderAlwaysOrdering(fmt, d) == <<RenderStep(fmt), "ComputingColumnOrder">>

\* the steps of one renderer: only csv, excel and markdown derive a column
\* order, and only after their check for empty data
StepsOfRender(fmt, d) ==
    <<RenderStep(fmt)>>
    \o IF fmt \in TabularFormats /\ Len(d) > 0 THEN <<"ComputingColumnOrder">> ELSE <<>>

\* one renderer call of the export: one format of "all", or the single format
Render ==
    /\ pc = "Rendering"
    /\ LET all == export_format = "all"
           total_formats == Len(formats)
           fmt == IF all THEN formats[idx + 1] ELSE export_format
           last == IF all THEN idx + 1 = total_formats ELSE TRUE
           output_path == PathJoin(output_dir_var,
                                   "export_" \o timestamp \o format_ext[fmt])
           before ==
               IF all
               THEN <<Upd("Exporting to " \o Upper(fmt) \o " (" \o ToString(idx + 1) \o "/"
                             \o ToString(total_formats) \o ")...",
                          Percent(70 * total_formats + idx * 30, total_formats))>>
               ELSE <<Upd("Exporting to " \o Upper(fmt) \o "...", Percent(70, 1))>>
           after ==
               IF all
               THEN <<Upd("Exported to " \o Upper(fmt) \o " (" \o ToString(idx + 1) \o "/"
                             \o ToString(total_formats) \o ")",
                          Percent(70 * total_formats + (idx + 1) * 30, total_formats))>>
                    \o IF last
                       THEN <<Upd("Export completed successfully to all formats",
                                  Percent(100, 1))>>
                       ELSE <<>>
               ELSE <<Upd("Export completed successfully: export_" \o timestamp
                             \o format_ext[fmt], Percent(100, 1))>>
           r == Export(fmt, extracted_data)
           st == StepsOfRender(fmt, extracted_data)
       IN IF r.exc # "none"
          THEN Fail(before, r.msg, st) /\ UNCHANGED idx
          ELSE \E written \in BOOLEAN :
                  IF ~ written
                  THEN Fail(before, "OSError", st) /\ UNCHANGED idx
                  ELSE /\ files' = (output_path :> r.content) @@ files
                       /\ Post(before \o after)
                       /\ idx' = idx + 1
                       /\ IF last
                          THEN /\ pc' = "Done"
                               /\ steps' = steps \o st \o <<"Done">>
                               /\ ShowDialog("info",
                                     IF all
                                     THEN "Export completed successfully to all formats!"
                                     ELSE "Export completed successfully!")
                          ELSE /\ pc' = pc
                               /\ steps' = steps \o st
                               /\ UNCHANGED dialogs
    /\ UNCHANGED <<gui_vars, fs_input, dirs, clock, threads, selected_fields, timestamp, data,
                   extracted_data, export_format, individual_configs_dir, call, ret>>

Next ==
    \/ select_all_fields
    \/ deselect_all_fields
    \/ reset_to_default
    \/ start_export
    \/ Load
    \/ Filter
    \/ Project
    \/ MakeDirs
    \/ WriteDoc
    \/ Render

Spec == Init /\ [][Next]_vars

-----------------------------------------------------------------------------
(* The helpers called directly *)

\* the calls: every sample record with every catalog field, every sample tree
\* with every sample list of terms
MaxNameLen == 3     \* longest sample model name

\* the characters of the sample model names and of their filenames, with
\* their code points; a name is kept as the sequence of its code points
Chars == <<" ", "-", ".", "/", "4", "G", "\\", "_", "d", "g", "m", "t", "§", "²", "É", "é">>
Codes == <<32, 45, 46, 47, 52, 71, 92, 95, 100, 103, 109, 116, 167, 178, 201, 233>>

\* the code points of the characters sample names are made of
NameAlphabet == {32, 45, 46, 47, 52, 71, 92, 95, 116, 167, 178, 201, 233}

\* ''.join(chr(n) for n in codes)
RECURSIVE Decode(_)
Decode(codes) ==
    IF codes = <<>> THEN ""
    ELSE Chars[CHOOSE i \in DOMAIN Codes : Codes[i] = Head(codes)] \o Decode(Tail(codes))

\* [ord(c) for c in s]
Encode(s) ==
    [i \in 1..Len(s) |-> Codes[CHOOSE k \in DOMAIN Chars : Chars[k] = CharAt(s, i)]]

ModelNames(len) == UNION {[1..n -> NameAlphabet] : n \in 0..len}

InitCalls ==
    /\ Constructed
    /\ fs_input = Missing
    /\ dirs = {}
    /\ clock = Now
    /\ threads = <<>>
    /\ \/ \E it \in ResolveItems, f \in FieldNames :
             call = [fn |-> "resolve", item |-> it, field |-> f]
       \/ \E fname \in {"contains_personal_info", "script_contains_personal_info"},
             o \in MatchObjects(MaxListLen), ts \in TermLists :
             call = [fn |-> fname, obj |-> o, terms |-> ts]
       \/ \E n \in ModelNames(MaxNameLen) : call = [fn |-> "filename", model_name |-> n]
    /\ ret = NoReturn

CallResolve ==
    /\ call.fn = "resolve"
    /\ ret = NoReturn
    /\ ret' = Resolve(call.item, call.field)
    /\ UNCHANGED <<gui_vars, run_vars, fs_input, clock, threads, call>>

CallContains ==
    /\ call.fn = "contains_personal_info"
    /\ ret = NoReturn
    /\ ret' = Returned(Bool(contains_personal_info(call.obj, call.terms)))
    /\ UNCHANGED <<gui_vars, run_vars, fs_input, clock, threads, call>>

CallScriptContains ==
    /\ call.fn = "script_contains_personal_info"
    /\ ret = NoReturn
    /\ ret' = Returned(Bool(script_contains_personal_info(call.obj, call.terms)))
    /\ UNCHANGED <<gui_vars, run_vars, fs_input, clock, threads, call>>

CallFilename ==
    /\ call.fn = "filename"
    /\ ret = NoReturn
    /\ ret' = Returned(Encode(Filename(Decode(call.model_name))))
    /\ UNCHANGED <<gui_vars, run_vars, fs_input, clock, threads, call>>

NextCalls == CallResolve \/ CallContains \/ CallScriptContains \/ CallFilename

SpecCalls == InitCalls /\ [][NextCalls]_vars

-----------------------------------------------------------------------------
(* C1: path resolution *)

\* every segment finds a mapping that has its key
RECURSIVE Traversable(_, _)
Traversable(v, parts) ==
    \/ parts = <<>>
    \/ /\ v.t = "dict"
       /\ Head(parts) \in DOMAIN v.d
       /\ Traversable(v.d[Head(parts)], Tail(parts))

RECURSIVE LeafAt(_, _)
LeafAt(v, parts) ==
    IF parts = <<>> THEN v ELSE LeafAt(v.d[Head(parts)], Tail(parts))

\* C1: resolving any field path against any record never raises; the result
\* is the empty string when a segment's key is absent or the value reached
\* before a segment is not a mapping, and otherwise the leaf value itself.
C1_ResolveTotal ==
    (call.fn = "resolve" /\ ret # NoReturn) =>
        LET parts == Split(call.field, ".")
        IN /\ ret.exc = "none"
           /\ ret.val = IF Traversable(call.item, parts)
                        THEN LeafAt(call.item, parts)
                        ELSE Str("")

\* a record whose info is a number, asked for info.meta.description
C1_Witness ==
    /\ call.fn = "resolve"
    /\ call.field = "info.meta.description"
    /\ call.item = Dict([name |-> Str("d1"), info |-> Num(1)])
    /\ ret = Returned(Str(""))

-----------------------------------------------------------------------------
(* C2: the personal-information predicate *)

\* the string leaves of a tree: values of mappings and elements of sequences
RECURSIVE StringLeaves(_)
StringLeaves(v) ==
    IF v.t = "str" THEN {v.s}
    ELSE IF v.t = "dict" THEN UNION {StringLeaves(v.d[k]) : k \in DOMAIN v.d}
    ELSE IF v.t = "list" THEN UNION {StringLeaves(v.l[i]) : i \in DOMAIN v.l}
    ELSE {}

\* C2: contains_personal_info is false when there are no terms, and otherwise
\* true exactly when some string leaf of the record (never a key) contains
\* some term as a case-sensitive substring; in the GUI and in the script.
C2_ContainsIffLeafMatch ==
    (call.fn \in {"contains_personal_info", "script_contains_personal_info"}
        /\ ret # NoReturn) =>
        ret = Returned(Bool(
                /\ call.terms # <<>>
                /\ \E s \in StringLeaves(call.obj) :
                      \E term \in Range(call.terms) : StrContains(term, s)))

\* a term inside a list inside a mapping, under a clean name
C2_Witness ==
    /\ call.fn = "contains_personal_info"
    /\ call.terms = personal_terms
    /\ call.obj = Dict([name |-> List(<<Str("x daniel")>>)])
    /\ ret = Returned(Bool(TRUE))

-----------------------------------------------------------------------------
(* C3: filtering *)

\* the array read from the input file
InputRecords == fs_input.value.l

\* the run has read its input and is past the filter
Filtered ==
    \/ pc \in {"Projecting", "MakingDirs", "WritingIndividualDocs", "Rendering", "Done"}
    \/ pc = "Failed" /\ "Projecting" \in Range(steps)

HasPersonalLeaf(r) ==
    \E s \in StringLeaves(r) : \E term \in Range(personal_terms) : StrContains(term, s)

\* C3: with the filter flag on, the surviving records are exactly the input
\* records without personal information anywhere in the record, in input
\* order, whatever the selected fields; with the flag off every record survives.
C3_WholeRecordFilter ==
    Filtered =>
        data = IF filter_personal_var
               THEN SelectSeq(InputRecords, LAMBDA r : ~ HasPersonalLeaf(r))
               ELSE InputRecords

\* the match lies in info.meta.tags, which is not selected: the record is dropped
C3_Witness ==
    /\ Filtered
    /\ filter_personal_var
    /\ InputRecords = <<RecTagged, RecFull>>
    /\ ~ field_vars["info.meta.tags"]
    /\ data = <<RecFull>>

-----------------------------------------------------------------------------
(* C4 to C7: the column order *)

\* the bulk output file of a format
BulkFile(fmt) == PathJoin(output_dir_var, "export_" \o timestamp \o format_ext[fmt])

Written(fmt) == BulkFile(fmt) \in DOMAIN files

\* the keys that occur in some projected item
ProjectedKeys == {extracted_data[i][j].key : i \in DOMAIN extracted_data, j \in 1..Len(selected_fields)}

PrimaryFields == <<"name", "info.meta.description", "info.params.system">>

NoDuplicates(seq) == \A i, j \in DOMAIN seq : i # j => seq[i] # seq[j]

\* C4: the CSV column order is the primary fields that occur as a key, in
\* their fixed order, followed by all remaining keys in ascending
\* lexicographic order, no key twice.
C4_PrimaryThenSorted ==
    Written("csv") =>
        LET cols == files[BulkFile("csv")].columns
            first == SelectSeq(PrimaryFields, LAMBDA f : f \in ProjectedKeys)
            np == Len(first)
        IN /\ NoDuplicates(cols)
           /\ Len(cols) >= np
           /\ SubSeq(cols, 1, np) = first
           /\ {cols[i] : i \in (np + 1)..Len(cols)} = ProjectedKeys \ Range(PrimaryFields)
           /\ \A i, j \in (np + 1)..Len(cols) : i < j => StrLess(cols[i], cols[j])

\* id before created in the catalog, created before id in the columns
C4_Witness ==
    /\ Written("csv")
    /\ files[BulkFile("csv")].columns =
          <<"name", "info.params.system", "created", "id", "info.base_model_id">>

\* C5: the keys of the column order are exactly the union of the keys of
\* the projected items, in every renderer that derives a column order.
C5_ColumnsAreTheKeys ==
    \A fmt \in {"csv", "excel", "markdown"} :
        Written(fmt) => Range(files[BulkFile(fmt)].columns) = ProjectedKeys

\* two records, no description selected, all three tables written
C5_Witness ==
    /\ Written("csv") /\ Written("excel") /\ Written("markdown")
    /\ Len(extracted_data) = 2
    /\ ~ field_vars["info.meta.description"]
    /\ ProjectedKeys = {"name", "id", "info.params.system", "info.base_model_id"}

Populated(r, field) ==
    LET parts == Split(field, ".")
    IN Traversable(r, parts) /\ LeafAt(r, parts) \notin {Str(""), Null}

\* only name and info.params.system are ever populated among the primary fields
OnlyNameAndSystemPopulated ==
    /\ data # <<>>
    /\ \A i \in DOMAIN data :
          /\ Populated(data[i], "name")
          /\ Populated(data[i], "info.params.system")
          /\ ~ Traversable(data[i], Split("info.meta.description", "."))

\* C6 as stated: when info.meta.description resolves to nothing in every
\* record, the column order is name, info.params.system, then the other
\* keys alphabetically, and info.meta.description is not a column.
C6_AsStated ==
    (Written("csv") /\ OnlyNameAndSystemPopulated
        /\ field_vars["name"] /\ field_vars["info.params.system"]) =>
        LET cols == files[BulkFile("csv")].columns
        IN /\ cols = <<"name", "info.params.system">>
                       \o Sorted(ProjectedKeys \ Range(PrimaryFields))
           /\ "info.meta.description" \notin Range(cols)

\* C6 amended: what decides is the selection. When name and
\* info.params.system are selected and info.meta.description is not, the
\* column order is name, info.params.system, then the other keys
\* alphabetically, without info.meta.description; a selected
\* info.meta.description is a column even when no record has it.
C6_SelectionDecides ==
    (Written("csv") /\ "name" \in Range(selected_fields)
        /\ "info.params.system" \in Range(selected_fields)) =>
        LET cols == files[BulkFile("csv")].columns
            others == Sorted(Range(selected_fields) \ Range(PrimaryFields))
        IN IF "info.meta.description" \in Range(selected_fields)
           THEN cols = PrimaryFields \o others
           ELSE cols = <<"name", "info.params.system">> \o others

\* description not selected, two other keys
C6_Witness ==
    /\ Written("csv")
    /\ OnlyNameAndSystemPopulated
    /\ ~ field_vars["info.meta.description"]
    /\ files[BulkFile("csv")].columns =
          <<"name", "info.params.system", "id", "info.base_model_id">>

DisplayName(f) ==
    CASE f = "info.meta.description" -> "description"
      [] f = "info.params.system" -> "system_prompt"
      [] OTHER -> f

\* C7: the CSV, Excel and Markdown renderers give the same projected items
\* the same sequence of columns and the same header names: description,
\* system_prompt, and every other key under its own name.
C7_SameColumnsEverywhere ==
    \A f1 \in {"csv", "excel", "markdown"} :
        Written(f1) =>
            LET c1 == files[BulkFile(f1)]
            IN /\ c1.header = [i \in DOMAIN c1.columns |-> DisplayName(c1.columns[i])]
               /\ \A f2 \in {"csv", "excel", "markdown"} :
                     Written(f2) =>
                        /\ files[BulkFile(f2)].columns = c1.columns
                        /\ files[BulkFile(f2)].header = c1.header

\* an all-formats run whose selection is not in sorted order
C7_Witness ==
    /\ pc = "Done"
    /\ export_format = "all"
    /\ Written("csv") /\ Written("excel") /\ Written("markdown")
    /\ files[BulkFile("excel")].header =
          <<"name", "description", "system_prompt", "created", "id", "info.base_model_id">>

-----------------------------------------------------------------------------
(* C8: the order of the steps *)

RenderSteps == {RenderStep(f) : f \in Range(formats)}

TabularRenderSteps == {RenderStep("csv"), RenderStep("excel"), RenderStep("markdown")}

StepRank(s) ==
    CASE s = "Loading" -> 1
      [] s = "Filtering" -> 2
      [] s = "Projecting" -> 3
      [] s = "ComputingColumnOrder" -> 4
      [] s = "WritingIndividualDocs" -> 5
      [] s \in RenderSteps -> 6
      [] s = "Done" -> 7
      [] s = "Failed" -> 8

Count(seq, S) == Cardinality({i \in DOMAIN seq : seq[i] \in S})

RenderRank(s) == IF s = "ComputingColumnOrder" THEN 6 ELSE StepRank(s)

-----------------------------------------------------------------------------
(* C9: failure *)

StartsWith(s, prefix) == Len(s) >= Len(prefix) /\ SubSeq(s, 1, Len(prefix)) = prefix

\* C9: an exception moves the run to Failed with the error reported in the
\* status line and in one error dialog; the run then does nothing more, no
\* step has run twice, and every file and directory written before the
\* failure is still there, unchanged.
C9_FailureIsFinal ==
    [][ /\ (pc # "Failed" /\ pc' = "Failed") =>
              /\ \A p \in DOMAIN files : p \in DOMAIN files' /\ files'[p] = files[p]
              /\ DOMAIN files' = DOMAIN files
              /\ dirs \subseteq dirs'
              /\ Len(dialogs') = Len(dialogs) + 1
              /\ dialogs'[Len(dialogs')].kind = "error"
              /\ StartsWith(dialogs'[Len(dialogs')].text, "Error during export: ")
              /\ StartsWith(status_var', "Error: ")
              /\ SubSeq(status_var', 8, Len(status_var'))
                    = SubSeq(dialogs'[Len(dialogs')].text, 22, Len(dialogs'[Len(dialogs')].text))
              /\ steps'[Len(steps')] = "Failed"
              /\ NoDuplicates(SelectSeq(steps', LAMBDA st : st # "ComputingColumnOrder"))
        /\ pc = "Failed" => pc' = "Failed" /\ UNCHANGED <<files, dirs, steps, updates, dialogs>>
      ]_vars

\* the Excel renderer of an all-formats run fails after two documents and
\* the CSV and JSON files have been written
C9_Witness ==
    /\ pc = "Failed"
    /\ export_format = "all"
    /\ steps[Len(steps) - 1] \in {RenderStep("excel"), "ComputingColumnOrder"}
    /\ RenderStep("excel") \in Range(steps)
    /\ Written("csv") /\ Written("json") /\ ~ Written("excel")
    /\ Len(extracted_data) = 2
    /\ Cardinality(DOMAIN files) = 4

-----------------------------------------------------------------------------
(* C10: progress *)

\* a <= b for percentages
PercentLeq(a, b) == a.num * b.den <= b.num * a.den

\* C10: the percentages of the updates of a run, the update emitted on
\* failure included, are within 0 to 100 and never decrease.
C10_ProgressMonotone ==
    /\ \A i \in DOMAIN updates :
          /\ PercentLeq(Percent(0, 1), updates[i].progress)
          /\ PercentLeq(updates[i].progress, Percent(100, 1))
    /\ \A i \in 1..(Len(updates) - 1) :
          PercentLeq(updates[i].progress, updates[i + 1].progress)

-----------------------------------------------------------------------------
(* C11: no field selected *)

NoFieldSelected == \A f \in DOMAIN field_vars : ~ field_vars[f]

\* C11: a click on Export while no field is selected is rejected before any
\* input or output: no directory is created, no file is read or written and
\* no export thread is started.
C11_RejectBeforeIO ==
    [][ (pc = "Idle" /\ NoFieldSelected) =>
            /\ dirs' = dirs
            /\ files' = files
            /\ pc' = "Idle"
      ]_vars

-----------------------------------------------------------------------------
(* The stand-alone scripts *)

\* isinstance(data, list) fails, or json.load raises
BadInput ==
    \/ fs_input.kind = "invalid"
    \/ fs_input.kind = "json" /\ fs_input.value.t # "list"

\* model[outer][inner] behind the isinstance tests of the scripts, "" otherwise
ScriptNested(model, outer, inner) ==
    IF "info" \in DOMAIN model.d /\ model.d["info"].t = "dict"
    THEN LET info == model.d["info"]
         IN IF outer \in DOMAIN info.d /\ info.d[outer].t = "dict"
            THEN DictGet(info.d[outer], inner, Str("")).val
            ELSE Str("")
    ELSE Str("")

Whitespace == " \n"

\* s.strip()
RECURSIVE Strip(_)
Strip(s) ==
    IF Len(s) = 0 THEN s
    ELSE IF InString(CharAt(s, 1), Whitespace) THEN Strip(SubSeq(s, 2, Len(s)))
    ELSE IF InString(CharAt(s, Len(s)), Whitespace) THEN Strip(SubSeq(s, 1, Len(s) - 1))
    ELSE s

\* strftime("%d%m%y_%H%M") of a clock kept as %y%m%d_%H%M%S
DayFirstStamp(t) == SubSeq(t, 5, 6) \o SubSeq(t, 3, 4) \o SubSeq(t, 1, 2) \o SubSeq(t, 7, 11)

\* f"openwebui://model/{model.get('id', '')}"; kept symbolic in the id
Link(id) == [t |-> "link", id |-> id]

\* model_extractor.extract_model_data: the models, or None
extract_model_data(doc) ==
    IF doc.kind # "json" \/ doc.value.t # "list" THEN Null
    ELSE LET models == doc.value.l
         IN IF \E i \in DOMAIN models :
                  \/ models[i].t # "dict"
                  \/ DictGet(models[i], "name", Str("")).val.t # "str"
            THEN Null
            ELSE List([i \in DOMAIN models |->
                    [name |-> Str(Strip(DictGet(models[i], "name", Str("")).val.s)),
                     description |-> ScriptNested(models[i], "meta", "description"),
                     system_prompt |-> ScriptNested(models[i], "params", "system"),
                     link |-> Link(DictGet(models[i], "id", Str("")).val)]])

ExtractorOutputs == <<"models.csv", "models.json", "models.md", "models.txt">>

\* model_extractor.main
model_extractor_main ==
    /\ call.fn = "model_extractor"
    /\ ret = NoReturn
    /\ IF fs_input.kind = "missing"
       THEN ret' = Returned(Num(1)) /\ UNCHANGED <<dirs, files>>
       ELSE \E made \in BOOLEAN :
              IF ~ made
              THEN ret' = Raised("OSError") /\ UNCHANGED <<dirs, files>>
              ELSE LET output_dir == PathJoin("outputs", DayFirstStamp(clock))
                       models == extract_model_data(fs_input)
                   IN /\ dirs' = dirs \cup {"outputs", output_dir}
                      /\ IF models = Null \/ models = List(<<>>)
                         THEN ret' = Returned(Num(1)) /\ UNCHANGED files
                         ELSE \E saved \in SUBSET DOMAIN ExtractorOutputs :
                                /\ files' =
                                     [p \in {PathJoin(output_dir, ExtractorOutputs[i]) : i \in saved}
                                        |-> [kind |-> "models", items |-> models.l]] @@ files
                                /\ ret' = Returned(Num(IF saved = DOMAIN ExtractorOutputs
                                                       THEN 0 ELSE 1))
    /\ UNCHANGED <<gui_vars, progress_var, status_var, dialogs, pc, selected_fields, timestamp,
                   data, extracted_data, idx, export_format, individual_configs_dir, updates,
                   steps, fs_input, clock, threads, call>>

\* the rows json_to_csv writes before a record that is not a mapping stops it
CsvScriptRows(models) ==
    LET bad == {i \in DOMAIN models : models[i].t # "dict"}
        n == IF bad = {} THEN Len(models)
             ELSE (CHOOSE i \in bad : \A j \in bad : i <= j) - 1
    IN [i \in 1..n |-> <<DictGet(models[i], "name", Str("")).val,
                         ScriptNested(models[i], "meta", "description"),
                         ScriptNested(models[i], "params", "system")>>]

\* json_to_csv.main with convert_json_to_csv
json_to_csv_main ==
    /\ call.fn = "json_to_csv"
    /\ ret = NoReturn
    /\ LET output_dir == "scripts/workspace/output"
           output_file == PathJoin(output_dir, clock \o "_models.csv")
       IN IF fs_input.kind = "missing" \/ BadInput
          THEN ret' = Returned(Num(1)) /\ UNCHANGED <<dirs, files>>
          ELSE \E made \in BOOLEAN :
                 IF ~ made
                 THEN ret' = Returned(Num(1)) /\ UNCHANGED <<dirs, files>>
                 ELSE /\ dirs' = dirs \cup {output_dir}
                      /\ \E opened \in BOOLEAN :
                           IF ~ opened
                           THEN ret' = Returned(Num(1)) /\ UNCHANGED files
                           ELSE LET models == fs_input.value.l
                                    rows == CsvScriptRows(models)
                                IN /\ files' = (output_file :>
                                        [kind |-> "csv",
                                         header |-> <<"name", "description", "system_prompt">>,
                                         rows |-> rows]) @@ files
                                   /\ ret' = Returned(Num(IF Len(rows) = Len(models)
                                                          THEN 0 ELSE 1))
    /\ UNCHANGED <<gui_vars, progress_var, status_var, dialogs, pc, selected_fields, timestamp,
                   data, extracted_data, idx, export_format, individual_configs_dir, updates,
                   steps, fs_input, clock, threads, call>>

\* simplify_json: simplified_item
SimplifiedItem(item) ==
    [name |-> DictGet(item, "name", Str("")).val,
     system_prompt |-> ScriptNested(item, "params", "system"),
     description |-> ScriptNested(item, "meta", "description")]

\* simplify_json.main with simplify_json, on the default paths
simplify_json_main ==
    /\ call.fn = "simplify_json"
    /\ ret = NoReturn
    /\ ret' = Returned(Null)
    /\ LET output_dir == "workspace/output"
           output_file == PathJoin(output_dir, "simplified_data_" \o clock \o ".json")
       IN IF fs_input.kind = "missing" \/ BadInput
          THEN UNCHANGED <<dirs, files>>
          ELSE LET kept == IF call.filter
                           THEN SelectSeq(fs_input.value.l, LAMBDA item :
                                   ~ script_contains_personal_info(item, personal_terms))
                           ELSE fs_input.value.l
               IN IF \E i \in DOMAIN kept : kept[i].t # "dict"
                  THEN UNCHANGED <<dirs, files>>
                  ELSE \E made \in BOOLEAN :
                         IF ~ made
                         THEN UNCHANGED <<dirs, files>>
                         ELSE /\ dirs' = dirs \cup {output_dir}
                              /\ \E written \in BOOLEAN :
                                   IF ~ written
                                   THEN UNCHANGED files
                                   ELSE files' = (output_file :>
                                           [kind |-> "json",
                                            items |-> [i \in DOMAIN kept |->
                                                         SimplifiedItem(kept[i])]]) @@ files
    /\ UNCHANGED <<gui_vars, progress_var, status_var, dialogs, pc, selected_fields, timestamp,
                   data, extracted_data, idx, export_format, individual_configs_dir, updates,
                   steps, fs_input, clock, threads, call>>

\* the script runs: every sample input, with and without the output directories
InitScripts ==
    /\ Constructed
    /\ fs_input \in InputDocuments \cup {Missing}
    /\ dirs \in {{}, {"outputs", "scripts/workspace/output", "workspace/output"}}
    /\ clock = Now
    /\ threads = <<>>
    /\ call \in {[fn |-> "model_extractor"], [fn |-> "json_to_csv"]}
                \cup {[fn |-> "simplify_json", filter |-> b] : b \in BOOLEAN}
    /\ ret = NoReturn

NextScripts == model_extractor_main \/ json_to_csv_main \/ simplify_json_main

SpecScripts == InitScripts /\ [][NextScripts]_vars

-----------------------------------------------------------------------------
(* C12: input that is not a JSON array *)

\* C12: a script run on input that is not valid JSON, or whose top-level value
\* is not an array, creates no output directory and writes no output file.
C12_NoOutputOnBadInput ==
    [][ BadInput => (dirs' = dirs /\ files' = files) ]_vars

-----------------------------------------------------------------------------
(* C13: no surviving record *)

\* the run has called the renderer of its single format on an empty record set
RenderedEmpty ==
    /\ pc \in {"Done", "Failed"}
    /\ export_format \in Range(formats)
    /\ RenderStep(export_format) \in Range(steps)
    /\ Len(extracted_data) = 0

\* the renderer itself rejected the data
RenderError == pc = "Failed" /\ status_var = "Error: No data to export"

\* C13: on an empty surviving record set every format behaves alike: what
\* the renderer of the chosen format did (a render error, or an empty
\* document) is what the renderer of every other format does.
C13_UniformOnEmpty ==
    RenderedEmpty =>
        \A g \in Range(formats) :
            (Export(g, extracted_data).exc # "none") <=> RenderError

-----------------------------------------------------------------------------
(* C14, C15: the name of an individual file *)

\* the individual files written so far
DocPaths == {p \in DOMAIN files : files[p].kind = "doc"}

\* C14: the individual file of the model named "GPT 4 / Test" is gpt-4-test.md.
C14_ScenarioFilename ==
    \A p \in DocPaths :
        files[p].model_name = Str("GPT 4 / Test")
            => p = PathJoin(individual_configs_dir, "gpt-4-test.md")

\* the characters of [A-Za-z0-9_-]
AsciiFilenameChars == LowerCase \o UpperCase \o Digits \o "_-"

\* s without the characters outside [A-Za-z0-9_-]
RECURSIVE KeepAscii(_)
KeepAscii(s) ==
    IF Len(s) = 0 THEN ""
    ELSE (IF InString(CharAt(s, 1), AsciiFilenameChars) THEN CharAt(s, 1) ELSE "")
         \o KeepAscii(SubSeq(s, 2, Len(s)))

\* C15: the filename of a model name is the name lowercased, with every
\* space, slash and backslash replaced by a dash, every character outside
\* [A-Za-z0-9_-] removed (letters and digits outside ASCII included), and
\* ".md" appended.
C15_AsciiStem ==
    (call.fn = "filename" /\ ret # NoReturn) =>
        LET lowered == Lower(Decode(call.model_name))
            dashed == Replace(Replace(Replace(lowered, " ", "-"), "/", "-"), "\\", "-")
        IN ret = Returned(Encode(KeepAscii(dashed) \o ".md"))

-----------------------------------------------------------------------------
(* C16: one individual file per surviving record *)

\* C16: after a run that reached Done the directory of individual files
\* holds as many files as records survived, whatever the format and the
\* selection.
C16_OneDocPerRecord ==
    pc = "Done" =>
        Cardinality({p \in DocPaths : StartsWith(p, individual_configs_dir \o "/")})
            = Len(extracted_data)

-----------------------------------------------------------------------------
(* C17: where the files of a run lie *)

\* the directory of the run, the parent of individual-configs
RunDir == PathJoin(output_dir_var, "export_" \o timestamp)

\* C17: every file a run has written lies inside the timestamped directory
\* of the run, the bulk files as well as the individual files.
C17_AllUnderRunDir ==
    \A p \in DOMAIN files : StartsWith(p, RunDir \o "/")

-----------------------------------------------------------------------------
(* C18: the six files of an all-formats export *)

\* the files written outside the directory of the individual files
TopLevelFiles == DOMAIN files \ DocPaths

\* the projected key a column header stands for
FieldOfHeader(h) ==
    IF \E f \in DOMAIN csv_header_mapping : csv_header_mapping[f] = h
    THEN CHOOSE f \in DOMAIN csv_header_mapping : csv_header_mapping[f] = h
    ELSE h

\* a table read back: one set of <<field, cell>> per row
ReadTable(content) ==
    [i \in DOMAIN content.rows |->
        {<<FieldOfHeader(content.header[j]), content.rows[i][j]>> : j \in DOMAIN content.header}]

\* a sequence of mappings read back: one set of <<key, value>> per item
ReadItems(content) ==
    [i \in DOMAIN content.items |->
        {<<content.items[i][j].key, content.items[i][j].value>> : j \in DOMAIN content.items[i]}]

\* the elements with a text node below elem, as <<dotted path, text>>
RECURSIVE Leaves(_, _)
Leaves(elem, prefix) ==
    LET path == IF prefix = "" THEN elem.tag ELSE prefix \o "." \o elem.tag
    IN (IF elem.text = NoText THEN {} ELSE {<<path, elem.text>>})
       \cup UNION {Leaves(elem.children[i], path) : i \in DOMAIN elem.children}

\* the XML document read back: one set of <<dotted path, text>> per model
ReadXml(content) ==
    [i \in DOMAIN content.root.children |->
        UNION {Leaves(content.root.children[i].children[j], "") :
                  j \in DOMAIN content.root.children[i].children}]

\* a table cell of the Markdown file read back: \| is a pipe, <br> a newline
RECURSIVE Unescape(_)
Unescape(s) ==
    IF Len(s) = 0 THEN ""
    ELSE IF StartsWith(s, "\\|") THEN "|" \o Unescape(SubSeq(s, 3, Len(s)))
    ELSE IF StartsWith(s, "<br>") THEN "\n" \o Unescape(SubSeq(s, 5, Len(s)))
    ELSE CharAt(s, 1) \o Unescape(SubSeq(s, 2, Len(s)))

ReadMarkdown(content) ==
    [i \in DOMAIN content.rows |->
        {<<FieldOfHeader(content.header[j]),
           IF content.rows[i][j].t = "str" THEN Str(Unescape(content.rows[i][j].s))
           ELSE content.rows[i][j]>> : j \in DOMAIN content.header}]

\* the records a bulk file holds, as a reader of its format gets them
Logical(fmt) ==
    LET content == files[BulkFile(fmt)]
    IN CASE fmt \in {"csv", "excel"} -> ReadTable(content)
         [] fmt \in {"json", "yaml"} -> ReadItems(content)
         [] fmt = "xml" -> ReadXml(content)
         [] fmt = "markdown" -> ReadMarkdown(content)

\* a value as text, nothing for None and for an empty cell
AsText(v) == IF v.t \in {"null", "nan"} THEN Str("") ELSE Text(v)

RecordAsText(rec) == {<<p[1], AsText(p[2])>> : p \in rec}

\* the projected items, as sets of <<key, value>>
Projected ==
    [i \in DOMAIN extracted_data |->
        {<<extracted_data[i][j].key, extracted_data[i][j].value>> : j \in DOMAIN extracted_data[i]}]

AllFormatsDone == pc = "Done" /\ export_format = "all"

\* C18 as stated: an all-formats export that reached Done has written six
\* top-level files, and every one of them holds exactly the projected
\* records, with the same fields and the same values.
C18_AsStated ==
    AllFormatsDone =>
        /\ TopLevelFiles = {BulkFile(f) : f \in Range(formats)}
        /\ Cardinality(TopLevelFiles) = 6
        /\ \A f \in Range(formats) : Logical(f) = Projected

\* C18: an all-formats export that reached Done has written six top-level
\* files; every one of them holds one record per projected item, in order,
\* with one field per selected field, and the values agree as text, None and
\* the empty cell reading as the empty string.
C18_SameRecordsAsText ==
    AllFormatsDone =>
        /\ TopLevelFiles = {BulkFile(f) : f \in Range(formats)}
        /\ Cardinality(TopLevelFiles) = 6
        /\ \A f \in Range(formats) :
              /\ Len(Logical(f)) = Len(extracted_data)
              /\ \A i \in DOMAIN extracted_data :
                    /\ Cardinality(Logical(f)[i]) = Len(selected_fields)
                    /\ RecordAsText(Logical(f)[i]) = RecordAsText(Projected[i])

\* two records, with a number, a None and a string with a pipe and a newline
\* among the values of four fields
C18_Witness ==
    /\ AllFormatsDone
    /\ Len(extracted_data) = 2
    /\ Len(selected_fields) >= 4
    /\ \E i \in DOMAIN extracted_data : <<"created", Num(1)>> \in Projected[i]
    /\ \E i \in DOMAIN extracted_data : <<"id", Null>> \in Projected[i]
    /\ \E i \in DOMAIN extracted_data : <<"info.meta.description", Str("a|b\nc")>> \in Projected[i]

-----------------------------------------------------------------------------
(* Several export threads: start_export does not wait for a running export *)

MaxThreads == 2     \* clicks on Export that start a thread

\* one second after Now
Later == "261104_060501"

NewThread == [pc |-> "Started", timestamp |-> "", extracted_data |-> <<>>]

\* start_export, the click starting one more thread
start_export_thread ==
    /\ Len(threads) < MaxThreads
    /\ IF input_file_var = ""
       THEN Reject("Please select an input JSON file") /\ UNCHANGED <<dirs, threads>>
       ELSE IF output_dir_var = ""
       THEN Reject("Please select an output directory") /\ UNCHANGED <<dirs, threads>>
       ELSE IF fs_input.kind = "missing"
       THEN Reject("Input file does not exist") /\ UNCHANGED <<dirs, threads>>
       ELSE \E made \in IF output_dir_var \in dirs THEN {TRUE} ELSE {TRUE, FALSE} :
               IF ~ made
               THEN Reject("Could not create output directory") /\ UNCHANGED <<dirs, threads>>
               ELSE /\ dirs' = dirs \cup {output_dir_var}
                    /\ IF \A f \in DOMAIN field_vars : ~ field_vars[f]
                       THEN /\ Reject("Please select at least one field to export")
                            /\ UNCHANGED threads
                       ELSE /\ progress_var' = Percent(0, 1)
                            /\ status_var' = "Starting export..."
                            /\ threads' = Append(threads, NewThread)
                            /\ UNCHANGED <<dialogs, pc>>
    /\ Len(dialogs') <= MaxDialogs + Len(threads')
    /\ UNCHANGED <<gui_vars, fs_input, files, clock, selected_fields, timestamp, data,
                   extracted_data, idx, export_format, individual_configs_dir,
                   updates, steps, call, ret>>

\* a second passes
tick ==
    /\ clock = Now
    /\ clock' = Later
    /\ UNCHANGED <<gui_vars, run_vars, fs_input, threads, call, ret>>

\* the except clause of perform_export in thread i
ThreadFails(i, e) ==
    /\ threads' = [threads EXCEPT ![i].pc = "Failed"]
    /\ status_var' = "Error: " \o e
    /\ progress_var' = Percent(0, 1)
    /\ ShowDialog("error", "Error during export: " \o e)

\* perform_export of thread i up to the end of the extraction loop
thread_extract(i) ==
    /\ threads[i].pc = "Started"
    /\ LET fields == SelectSeq(FieldOrder, LAMBDA f : field_vars[f])
           stamped == [threads EXCEPT ![i].timestamp = clock]
       IN IF fs_input.kind # "json"
          THEN ThreadFails(i, "JSONDecodeError")
          ELSE IF fs_input.value.t # "list"
          THEN ThreadFails(i, "Expected a JSON array, but got " \o TypeName(fs_input.value))
          ELSE LET kept == IF filter_personal_var
                           THEN FilterPersonal(fs_input.value.l, personal_terms)
                           ELSE fs_input.value.l
               IN /\ threads' = [stamped EXCEPT ![i].pc = "Extracted",
                                                ![i].extracted_data = ExtractAll(kept, fields)]
                  /\ status_var' = IF Len(kept) = 0 THEN "Extracting selected fields..."
                                   ELSE "Extracting: " \o ToString(Len(kept)) \o "/"
                                           \o ToString(Len(kept))
                  /\ progress_var' = IF Len(kept) = 0 THEN Percent(30, 1) ELSE Percent(70, 1)
                  /\ UNCHANGED dialogs
    /\ UNCHANGED <<gui_vars, fs_input, dirs, files, clock, pc, selected_fields, timestamp,
                   data, extracted_data, idx, export_format, individual_configs_dir,
                   updates, steps, call, ret>>

\* the individual files of the first n items, later items overwriting earlier ones
RECURSIVE DocsWritten(_, _, _)
DocsWritten(d, n, dir) ==
    IF n = 0 THEN <<>>
    ELSE LET doc == IndividualDoc(d[n])
         IN (PathJoin(dir, doc.name) :> doc.content) @@ DocsWritten(d, n - 1, dir)

\* the items before the first one whose name is not a string
DocsBeforeFailure(d) ==
    LET bad == {i \in DOMAIN d : IndividualDoc(d[i]).exc # "none"}
    IN IF bad = {} THEN Len(d) ELSE (CHOOSE i \in bad : \A j \in bad : i <= j) - 1

\* perform_export of thread i: the directory and the individual files
thread_docs(i) ==
    /\ threads[i].pc = "Extracted"
    /\ LET d == threads[i].extracted_data
           run_dir == PathJoin(output_dir_var, "export_" \o threads[i].timestamp)
           dir == PathJoin(run_dir, "individual-configs")
           n == DocsBeforeFailure(d)
       IN /\ dirs' = dirs \cup {output_dir_var, run_dir, dir}
          /\ files' = DocsWritten(d, n, dir) @@ files
          /\ IF n < Len(d)
             THEN ThreadFails(i, "object has no attribute 'lower'")
             ELSE /\ threads' = [threads EXCEPT ![i].pc = "DocsWritten"]
                  /\ status_var' = IF n = 0 THEN "Creating individual model markdown files..."
                                   ELSE "Creating individual files: " \o ToString(n) \o "/"
                                           \o ToString(n)
                  /\ progress_var' = IF n = 0 THEN Percent(65, 1) ELSE Percent(70, 1)
                  /\ UNCHANGED dialogs
    /\ UNCHANGED <<gui_vars, fs_input, clock, pc, selected_fields, timestamp, data,
                   extracted_data, idx, export_format, individual_configs_dir, updates, steps,
                   call, ret>>

\* the formats rendered before the first renderer that raises
RendersBeforeFailure(fmts, d) ==
    LET bad == {k \in DOMAIN fmts : Export(fmts[k], d).exc # "none"}
    IN IF bad = {} THEN Len(fmts) ELSE (CHOOSE k \in bad : \A j \in bad : k <= j) - 1

\* perform_export of thread i: the bulk files
thread_render(i) ==
    /\ threads[i].pc = "DocsWritten"
    /\ LET d == threads[i].extracted_data
           chosen == export_format_var
           fmts == IF chosen = "all" THEN formats ELSE <<chosen>>
           n == RendersBeforeFailure(fmts, d)
           path(fmt) == PathJoin(output_dir_var,
                                 "export_" \o threads[i].timestamp \o format_ext[fmt])
       IN /\ files' = [p \in {path(fmts[k]) : k \in 1..n} |->
                          Export(fmts[CHOOSE k \in 1..n : path(fmts[k]) = p], d).content]
                      @@ files
          /\ IF n < Len(fmts)
             THEN ThreadFails(i, Export(fmts[n + 1], d).msg)
             ELSE /\ threads' = [threads EXCEPT ![i].pc = "Done"]
                  /\ status_var' = IF chosen = "all"
                                   THEN "Export completed successfully to all formats"
                                   ELSE "Export completed successfully: export_"
                                           \o threads[i].timestamp \o format_ext[chosen]
                  /\ progress_var' = Percent(100, 1)
                  /\ ShowDialog("info", IF chosen = "all"
                                        THEN "Export completed successfully to all formats!"
                                        ELSE "Export completed successfully!")
    /\ UNCHANGED <<gui_vars, fs_input, dirs, clock, pc, selected_fields, timestamp, data,
                   extracted_data, idx, export_format, individual_configs_dir, updates, steps,
                   call, ret>>

\* the inputs of the runs with several threads
ThreadInputs ==
    {[kind |-> "invalid", value |-> Null]}
    \cup {[kind |-> "json", value |-> List(l)] :
             l \in {<<>>, <<RecOdd>>, <<RecFull, RecTagged>>}}

ThreadFormats == {"csv", "json", "all"}

InitThreads ==
    /\ input_file_var = InputPath
    /\ output_dir_var = DefaultOutputDir
    /\ dirs \in {{}, {DefaultOutputDir}}
    /\ fs_input \in ThreadInputs
    /\ export_format_var \in ThreadFormats
    /\ filter_personal_var \in BOOLEAN
    /\ field_vars \in {DefaultFieldVars, [f \in FieldNames |-> FALSE]}
    /\ clock = Now
    /\ threads = <<>>
    /\ NothingRun
    /\ call = NoCall
    /\ ret = NoReturn

NextThreads ==
    \/ start_export_thread
    \/ tick
    \/ \E i \in DOMAIN threads : thread_extract(i)
    \/ \E i \in DOMAIN threads : thread_docs(i)
    \/ \E i \in DOMAIN threads : thread_render(i)

SpecThreads == InitThreads /\ [][NextThreads]_vars

-----------------------------------------------------------------------------
(* C19: runs in progress at the same time *)

\* the thread has taken its timestamp and has not finished
InProgress(i) == threads[i].pc \in {"Extracted", "DocsWritten"}

ThreadRunDir(i) == PathJoin(output_dir_var, "export_" \o threads[i].timestamp)

ThreadBulkFiles(i) ==
    {PathJoin(output_dir_var, "export_" \o threads[i].timestamp \o format_ext[f]) :
        f \in Range(formats)}

\* C19: two export runs in progress at the same time never have the same
\* run directory or a bulk file path in common.
C19_DistinctLocations ==
    \A i, j \in DOMAIN threads :
        (i # j /\ InProgress(i) /\ InProgress(j)) =>
            /\ ThreadRunDir(i) # ThreadRunDir(j)
            /\ ThreadBulkFiles(i) \cap ThreadBulkFiles(j) = {}

-----------------------------------------------------------------------------
(* The export thread is a daemon thread: it ends when the window is closed *)

\* the positions of a run that has started and has not ended
Running ==
    pc \in {"Loading", "Filtering", "Projecting", "MakingDirs", "WritingIndividualDocs",
            "Rendering"}

\* the window is closed: mainloop returns, main returns and the process
\* exits, and with it the export thread, wherever it is; what the process
\* held in memory is gone, the files written stay
close_window ==
    /\ pc \notin {"Killed", "Exited"}
    /\ pc' = IF Running THEN "Killed" ELSE "Exited"
    /\ selected_fields' = <<>>
    /\ timestamp' = ""
    /\ data' = <<>>
    /\ extracted_data' = <<>>
    /\ idx' = 0
    /\ export_format' = ""
    /\ individual_configs_dir' = ""
    /\ UNCHANGED <<gui_vars, progress_var, status_var, fs_input, dirs, files, clock, threads,
                   dialogs, updates, steps, call, ret>>

NextClose == Next \/ close_window

SpecClose == Init /\ [][NextClose]_vars

-----------------------------------------------------------------------------
(* C20: termination *)

SuccessSummaries == Cardinality({i \in DOMAIN dialogs : dialogs[i].kind = "info"})

ErrorSummaries ==
    Cardinality({i \in DOMAIN dialogs : StartsWith(dialogs[i].text, "Error during export: ")})

\* the export thread has been started
RunStarted == pc \notin {"Idle", "Exited"}

\* C20: a run that has started is on its way, with its thread alive, or has
\* ended in Done or Failed; a run in Done has shown the success summary and
\* no error summary, a run in Failed the error summary and no success
\* summary, and a run on its way has shown neither.
C20_TerminatesWithOneSummary ==
    /\ RunStarted => (Running \/ pc \in {"Done", "Failed"})
    /\ pc = "Done" => (SuccessSummaries = 1 /\ ErrorSummaries = 0
                       /\ StartsWith(status_var, "Export completed successfully"))
    /\ pc = "Failed" => (SuccessSummaries = 0 /\ ErrorSummaries = 1
                         /\ StartsWith(status_var, "Error: "))
    /\ Running => (SuccessSummaries = 0 /\ ErrorSummaries = 0)

-----------------------------------------------------------------------------
(* C21: the XML tree *)

\* no two children with the same tag, anywhere below elem
RECURSIVE UniqueTags(_)
UniqueTags(elem) ==
    /\ \A i, j \in DOMAIN elem.children :
          i # j => elem.children[i].tag # elem.children[j].tag
    /\ \A i \in DOMAIN elem.children : UniqueTags(elem.children[i])

\* the elements reached from elem by following the tags of parts
RECURSIVE Descend(_, _)
Descend(elem, parts) ==
    IF parts = <<>> THEN {elem}
    ELSE UNION {Descend(elem.children[i], Tail(parts)) :
                  i \in {k \in DOMAIN elem.children : elem.children[k].tag = Head(parts)}}

\* C21: the XML file has one model element per projected item under the root
\* element models, in order; every key a.b.c of the item is an element c
\* below b below a that carries the text of the value, no other element
\* carries text, and no element of a model has two children with the same
\* tag: keys with a common prefix share the intermediate elements.
C21_SharedIntermediates ==
    Written("xml") =>
        LET root == files[BulkFile("xml")].root
        IN /\ root.tag = "models"
           /\ Len(root.children) = Len(extracted_data)
           /\ \A i \in DOMAIN root.children :
                 LET model == root.children[i]
                     item == extracted_data[i]
                 IN /\ model.tag = "model"
                    /\ UniqueTags(model)
                    /\ \A j \in DOMAIN item :
                          \E e \in Descend(model, Split(item[j].key, ".")) :
                              e.text = XmlText(item[j].value) /\ e.children = <<>>
                    /\ ReadXml(files[BulkFile("xml")])[i] =
                          {<<item[j].key, XmlText(item[j].value)>> : j \in DOMAIN item}

\* all catalog fields selected: description, profile_image_url, capabilities and tags share
\* info > meta, and the three capabilities share info > meta > capabilities
C21_Witness ==
    /\ Written("xml")
    /\ pc = "Done"
    /\ Len(selected_fields) = Cardinality(FieldNames)
    /\ Len(extracted_data) = 2
    /\ \A i \in DOMAIN extracted_data :
          LET model == files[BulkFile("xml")].root.children[i]
          IN /\ Cardinality(Descend(model, <<"info">>)) = 1
             /\ \E e \in Descend(model, <<"info", "meta">>) : Len(e.children) = 4
             /\ \E e \in Descend(model, <<"info", "meta", "capabilities">>) : Len(e.children) = 3

-----------------------------------------------------------------------------
(* C22: the Markdown table *)

\* the k-th smallest element of a set of numbers
Nth(S, k) == CHOOSE x \in S : Cardinality({y \in S : y < x}) = k - 1

\* s cut at the positions of P
CutAt(s, P) ==
    LET B == P \cup {0, Len(s) + 1}
    IN [k \in 1..(Cardinality(B) - 1) |-> SubSeq(s, Nth(B, k) + 1, Nth(B, k + 1) - 1)]

\* a line cut at every pipe that does not follow a backslash
CutAtPipes(line) ==
    CutAt(line, {k \in 1..Len(line) :
                    CharAt(line, k) = "|" /\ (k = 1 \/ CharAt(line, k - 1) # "\\")})

\* the lines of a text, the one after the last newline included
LinesOf(text) == CutAt(text, {k \in 1..Len(text) : CharAt(text, k) = "\n"})

\* a line of the table begins and ends with a pipe
Framed(line) ==
    /\ Len(line) >= 4
    /\ SubSeq(line, 1, 2) = "| "
    /\ SubSeq(line, Len(line) - 1, Len(line)) = " |"

\* what lies between the pipes of a table line "| c1 | ... | cn |"
CellsOfLine(line) ==
    LET parts == CutAtPipes(line)
    IN [j \in 1..(Len(parts) - 2) |-> parts[j + 1]]

\* a cell is set off from the pipes by one space on either side
Padded(cells) ==
    \A j \in DOMAIN cells :
        /\ Len(cells[j]) >= 2
        /\ CharAt(cells[j], 1) = " "
        /\ CharAt(cells[j], Len(cells[j])) = " "

Inner(cells) == [j \in DOMAIN cells |-> SubSeq(cells[j], 2, Len(cells[j]) - 1)]

\* a list or a mapping, written as its repr
Compound(v) == v.t \in {"list", "dict"}

\* C22: the Markdown table is the header row with the display names in
\* column order, one separator row, and one line per projected item, so that
\* no row spans two lines; every string value is written with each '|' as
\* '\|' and each newline as '<br>', and a row whose values are strings,
\* numbers, booleans or None has exactly one cell per column, which reads
\* back as the text of the value.
C22_TableStructure ==
    Written("markdown") =>
        LET content == files[BulkFile("markdown")]
            cols == content.columns
            lines == LinesOf(content.table)
        IN /\ Len(lines) = Len(extracted_data) + 3
           /\ lines[Len(lines)] = ""
           /\ Framed(lines[1])
           /\ Padded(CellsOfLine(lines[1]))
           /\ Inner(CellsOfLine(lines[1])) = [j \in DOMAIN cols |-> DisplayName(cols[j])]
           /\ Framed(lines[2])
           /\ CellsOfLine(lines[2]) = [j \in DOMAIN cols |-> " --- "]
           /\ \A i \in DOMAIN extracted_data :
                 LET item == extracted_data[i]
                     line == lines[i + 2]
                 IN /\ Framed(line)
                    /\ Len(content.rows[i]) = Len(cols)
                    /\ \A j \in DOMAIN cols :
                          LET value == ItemGet(item, cols[j], Str(""))
                              cell == content.rows[i][j]
                          IN value.t = "str" =>
                                /\ cell.t = "str"
                                /\ ~ StrContains("\n", cell.s)
                                /\ CutAtPipes(cell.s) = <<cell.s>>
                                /\ Unescape(cell.s) = value.s
                    /\ (\A j \in DOMAIN item : ~ Compound(item[j].value)) =>
                          /\ Len(CellsOfLine(line)) = Len(cols)
                          /\ Padded(CellsOfLine(line))
                          /\ \A j \in DOMAIN cols :
                                Str(Unescape(Inner(CellsOfLine(line))[j]))
                                    = AsText(ItemGet(item, cols[j], Str("")))

\* a description with a pipe and a newline in one row, a list with both in
\* the other
C22_Witness ==
    /\ Written("markdown")
    /\ pc = "Done"
    /\ Len(extracted_data) = 2
    /\ \E i \in DOMAIN extracted_data :
          ItemGet(extracted_data[i], "info.meta.description", Null) = Str("a|b\nc")
    /\ \E i \in DOMAIN extracted_data :
          Compound(ItemGet(extracted_data[i], "info.meta.tags", Null))
    /\ StrContains("a\\|b<br>c", files[BulkFile("markdown")].table)

-----------------------------------------------------------------------------
(* C23: the JSON file read back *)

\* a parse result: the value and the position after it
Parsed(v, i) == [ok |-> TRUE, v |-> v, i |-> i]

\* the text is not JSON at position i
Unparsed(i) == [ok |-> FALSE, v |-> Null, i |-> i]

JsonWhitespace == {" ", "\n"}

\* the first position from i on that holds no whitespace
SkipWs(s, i) ==
    CHOOSE k \in i..(Len(s) + 1) :
        /\ k = Len(s) + 1 \/ CharAt(s, k) \notin JsonWhitespace
        /\ \A m \in i..(k - 1) : CharAt(s, m) \in JsonWhitespace

\* the characters of a JSON string from position i on, up to its closing quote
RECURSIVE ParseChars(_, _, _)
ParseChars(s, i, acc) ==
    IF i > Len(s) THEN Unparsed(i)
    ELSE IF CharAt(s, i) = "\"" THEN Parsed(acc, i + 1)
    ELSE IF CharAt(s, i) = "\\"
         THEN CASE CharAt(s, i + 1) = "n" -> ParseChars(s, i + 2, acc \o "\n")
                [] CharAt(s, i + 1) = "\"" -> ParseChars(s, i + 2, acc \o "\"")
                [] CharAt(s, i + 1) = "\\" -> ParseChars(s, i + 2, acc \o "\\")
                [] OTHER -> Unparsed(i)
    ELSE IF CharAt(s, i) = "\n" THEN Unparsed(i)
    ELSE ParseChars(s, i + 1, acc \o CharAt(s, i))

DigitValue(c) == (CHOOSE k \in 1..10 : CharAt(Digits, k) = c) - 1

\* int(digits)
RECURSIVE ParseDigits(_, _, _)
ParseDigits(s, i, acc) ==
    IF i <= Len(s) /\ InString(CharAt(s, i), Digits)
    THEN ParseDigits(s, i + 1, 10 * acc + DigitValue(CharAt(s, i)))
    ELSE Parsed(Num(acc), i)

\* the mapping of a sequence of members: the last of two equal keys wins
ObjectOf(members) ==
    Dict([k \in {members[j].key : j \in DOMAIN members} |->
            members[CHOOSE j \in DOMAIN members :
                       /\ members[j].key = k
                       /\ \A m \in DOMAIN members : members[m].key = k => m <= j].value])

RECURSIVE ParseValue(_, _)
RECURSIVE ParseElements(_, _, _)
RECURSIVE ParseMembers(_, _, _)

\* "[" has been read; i is at the first element or at "]"
ParseElements(s, i, acc) ==
    IF CharAt(s, i) = "]" /\ acc = <<>> THEN Parsed(acc, i + 1)
    ELSE LET r == ParseValue(s, i)
             k == SkipWs(s, r.i)
         IN IF ~ r.ok THEN r
            ELSE IF k > Len(s) THEN Unparsed(k)
            ELSE IF CharAt(s, k) = "," THEN ParseElements(s, SkipWs(s, k + 1), Append(acc, r.v))
            ELSE IF CharAt(s, k) = "]" THEN Parsed(Append(acc, r.v), k + 1)
            ELSE Unparsed(k)

\* "{" has been read; i is at the first key or at "}"
ParseMembers(s, i, acc) ==
    IF CharAt(s, i) = "}" /\ acc = <<>> THEN Parsed(acc, i + 1)
    ELSE IF CharAt(s, i) # "\"" THEN Unparsed(i)
    ELSE LET key == ParseChars(s, i + 1, "")
             colon == SkipWs(s, key.i)
         IN IF ~ key.ok \/ colon > Len(s) \/ CharAt(s, colon) # ":"
            THEN Unparsed(i)
            ELSE LET r == ParseValue(s, SkipWs(s, colon + 1))
                     k == SkipWs(s, r.i)
                     member == [key |-> key.v, value |-> r.v]
                 IN IF ~ r.ok THEN r
                    ELSE IF k > Len(s) THEN Unparsed(k)
                    ELSE IF CharAt(s, k) = ","
                         THEN ParseMembers(s, SkipWs(s, k + 1), Append(acc, member))
                    ELSE IF CharAt(s, k) = "}" THEN Parsed(Append(acc, member), k + 1)
                    ELSE Unparsed(k)

\* the JSON value that begins at position i
ParseValue(s, i) ==
    IF i > Len(s) THEN Unparsed(i)
    ELSE CASE CharAt(s, i) = "\"" ->
                LET r == ParseChars(s, i + 1, "")
                IN IF ~ r.ok THEN r ELSE Parsed(Str(r.v), r.i)
           [] InString(CharAt(s, i), Digits) -> ParseDigits(s, i, 0)
           [] SubSeq(s, i, i + 3) = "true" -> Parsed(Bool(TRUE), i + 4)
           [] SubSeq(s, i, i + 4) = "false" -> Parsed(Bool(FALSE), i + 5)
           [] SubSeq(s, i, i + 3) = "null" -> Parsed(Null, i + 4)
           [] CharAt(s, i) = "[" ->
                LET r == ParseElements(s, SkipWs(s, i + 1), <<>>)
                IN IF ~ r.ok THEN r ELSE Parsed(List(r.v), r.i)
           [] CharAt(s, i) = "{" ->
                LET r == ParseMembers(s, SkipWs(s, i + 1), <<>>)
                IN IF ~ r.ok THEN r ELSE Parsed(ObjectOf(r.v), r.i)
           [] OTHER -> Unparsed(i)

\* the members of the objects of a top-level array, each in the order of the text
RECURSIVE ParseItems(_, _, _)
ParseItems(s, i, acc) ==
    IF i > Len(s) THEN Unparsed(i)
    ELSE IF CharAt(s, i) = "]" /\ acc = <<>> THEN Parsed(acc, i + 1)
    ELSE IF CharAt(s, i) # "{" THEN Unparsed(i)
    ELSE LET r == ParseMembers(s, SkipWs(s, i + 1), <<>>)
             k == SkipWs(s, r.i)
         IN IF ~ r.ok THEN r
            ELSE IF k > Len(s) THEN Unparsed(k)
            ELSE IF CharAt(s, k) = "," THEN ParseItems(s, SkipWs(s, k + 1), Append(acc, r.v))
            ELSE IF CharAt(s, k) = "]" THEN Parsed(Append(acc, r.v), k + 1)
            ELSE Unparsed(k)

\* json.loads(text) for the text of an array of objects, with nothing after it
LoadItems(text) ==
    LET start == SkipWs(text, 1)
    IN IF start > Len(text) \/ CharAt(text, start) # "[" THEN Unparsed(start)
       ELSE LET r == ParseItems(text, SkipWs(text, start + 1), <<>>)
            IN IF ~ r.ok \/ SkipWs(text, r.i) <= Len(text) THEN Unparsed(r.i)
               ELSE r

\* C23: the JSON file holds the projected items as they are: parsed back, it
\* is a sequence of as many mappings as there are projected items, in the
\* order of the items, each with the field paths as keys, in the order of
\* the selection and not in the column order, and with the values of the item.
C23_JsonRoundTrip ==
    Written("json") =>
        LET loaded == LoadItems(files[BulkFile("json")].text)
        IN /\ loaded.ok
           /\ loaded.v = extracted_data
           /\ \A i \in DOMAIN loaded.v : ItemKeys(loaded.v[i]) = selected_fields

\* two items; id is selected before created, which the column order puts
\* first; among the values a number, a None, and a string with a newline
C23_Witness ==
    /\ Written("json")
    /\ pc = "Done"
    /\ Len(extracted_data) = 2
    /\ \E a, b \in DOMAIN selected_fields :
          a < b /\ selected_fields[a] = "id" /\ selected_fields[b] = "created"
    /\ \E i \in DOMAIN extracted_data :
          /\ ItemGet(extracted_data[i], "info.meta.description", Null) = Str("a|b\nc")
          /\ ItemGet(extracted_data[i], "created", Null) = Num(1)
    /\ \E i \in DOMAIN extracted_data : ItemGet(extracted_data[i], "id", Str("")) = Null
    /\ StrContains("\"info.meta.description\": \"a|b\\nc\"", files[BulkFile("json")].text)

-----------------------------------------------------------------------------
(* C24: the projection *)

\* what a field path stands for in a record: the leaf, the empty string
\* when the path does not lead through mappings to a key
ValueAt(record, field) ==
    LET parts == Split(field, ".")
    IN IF Traversable(record, parts) THEN LeafAt(record, parts) ELSE Str("")

\* C24: the projection step ends with one projected item per surviving
\* record, in the order of the records; the keys of every item are exactly
\* the selected field paths, each with the value the path leads to in the
\* record or the empty string when it leads nowhere; the records are as
\* they were before the step.
C24_OneItemPerRecord ==
    [][ pc = "Projecting" =>
          /\ pc' = "MakingDirs"
          /\ data' = data
          /\ selected_fields' = selected_fields
          /\ Len(extracted_data') = Len(data)
          /\ \A i \in DOMAIN data :
                LET item == extracted_data'[i]
                IN /\ Len(item) = Len(selected_fields)
                   /\ {item[j].key : j \in DOMAIN item} = Range(selected_fields)
                   /\ \A j \in DOMAIN item :
                         item[j].value = ValueAt(data[i], item[j].key) ]_vars

\* two records projected: the description is absent from the first, whose
\* info is a string, and present in the second
C24_Witness ==
    /\ pc = "MakingDirs"
    /\ data = <<RecOdd, RecFull>>
    /\ Len(extracted_data) = 2
    /\ "info.meta.description" \in Range(selected_fields)
    /\ ItemGet(extracted_data[1], "info.meta.description", Null) = Str("")
    /\ ItemGet(extracted_data[1], "name", Str("")) = Null
    /\ ItemGet(extracted_data[2], "info.meta.description", Null) = Str("a|b\nc")

-----------------------------------------------------------------------------
(* The window stays active while an export runs: its widgets are bound to
   the variables perform_export reads *)

\* another directory the user can pick
OtherOutputDir == "workspace/other"

\* the checkbox of the personal-information filter is clicked
toggle_filter_personal ==
    /\ Running
    /\ filter_personal_var' = ~ filter_personal_var
    /\ UNCHANGED <<input_file_var, output_dir_var, export_format_var, field_vars,
                   run_vars, fs_input, clock, threads, call, ret>>

\* the formats whose radio button is clicked during a run
EditedFormats == {"csv", "json", "all"}

\* a radio button of the export format is clicked
choose_export_format ==
    /\ Running
    /\ \E fmt \in EditedFormats \ {export_format_var} : export_format_var' = fmt
    /\ UNCHANGED <<input_file_var, output_dir_var, filter_personal_var, field_vars,
                   run_vars, fs_input, clock, threads, call, ret>>

\* browse_output_dir: a directory is picked in the dialog
browse_output_dir ==
    /\ Running
    /\ \E directory \in {DefaultOutputDir, OtherOutputDir} \ {output_dir_var} :
          output_dir_var' = directory
    /\ UNCHANGED <<input_file_var, export_format_var, filter_personal_var, field_vars,
                   run_vars, fs_input, clock, threads, call, ret>>

\* the fields whose checkbox is clicked during a run
EditedFields == {"id"}

\* the checkbox of a field is clicked
toggle_field ==
    /\ Running
    /\ \E f \in EditedFields : field_vars' = [field_vars EXCEPT ![f] = ~ @]
    /\ UNCHANGED <<input_file_var, output_dir_var, export_format_var, filter_personal_var,
                   run_vars, fs_input, clock, threads, call, ret>>

\* the input arrays of the runs that are followed with edits
EditInputs == {<<RecFull>>, <<RecTagged>>, <<RecFull, RecTagged>>}

\* the window as constructed, an input file chosen
InitEdits ==
    /\ input_file_var = InputPath
    /\ output_dir_var = DefaultOutputDir
    /\ export_format_var = "csv"
    /\ filter_personal_var = TRUE
    /\ field_vars = DefaultFieldVars
    /\ fs_input \in {[kind |-> "json", value |-> List(l)] : l \in EditInputs}
    /\ dirs = {DefaultOutputDir, OtherOutputDir}
    /\ clock = Now
    /\ threads = <<>>
    /\ NothingRun
    /\ call = NoCall
    /\ ret = NoReturn

NextEdits ==
    \/ start_export
    \/ Load
    \/ Filter
    \/ Project
    \/ MakeDirs
    \/ WriteDoc
    \/ Render
    \/ toggle_filter_personal
    \/ choose_export_format
    \/ browse_output_dir
    \/ toggle_field

SpecEdits == InitEdits /\ [][NextEdits]_vars

-----------------------------------------------------------------------------
(* C25: the inputs of a run *)

\* the values in effect when Export is clicked in a window as constructed
StartFields == SelectSeq(FieldOrder, LAMBDA f : DefaultFieldVars[f])
StartFilter == TRUE
StartFormat == "csv"
StartOutputDir == DefaultOutputDir

\* the run has read the selection
Loaded == "Loading" \in Range(steps)

\* C25: a run works on the values in effect when it was started, whatever
\* is changed in the window while it runs: it projects the fields selected
\* then, filters according to the flag as it was then, renders the format
\* chosen then, and writes all its files under the output directory set then.
C25_SnapshotOfInputs ==
    /\ Loaded => selected_fields = StartFields
    /\ Filtered =>
          data = IF StartFilter
                 THEN SelectSeq(InputRecords, LAMBDA r : ~ HasPersonalLeaf(r))
                 ELSE InputRecords
    /\ pc \in {"Rendering", "Done"} => export_format = StartFormat
    /\ \A p \in DOMAIN files : StartsWith(p, StartOutputDir \o "/")

-----------------------------------------------------------------------------
(* C26: records of any shape in the individual files *)

\* C26: the step that writes the individual files never fails because of a
\* record: whatever the name of a projected item is, a string or not, the
\* only failure of the step is a file that cannot be written.
C26_DocsNeverFailOnRecord ==
    [][ (pc = "WritingIndividualDocs" /\ pc' = "Failed") =>
            status_var' = "Error: OSError" ]_vars

====
